---- MODULE Spec2Model ----
(***************************************************************************)
(* A model of bot.py: the Discord client HyperOSBot (its on_message event  *)
(* filter and the mute registry muted_users), the /admin slash commands,   *)
(* and the Flask dashboard routes that mirror them.                        *)
(*                                                                         *)
(* Every handler is one action.  The outcome of each external call (a      *)
(* Discord REST request, message.delete, fetch_member) is an input of the  *)
(* action, drawn from the outcomes the call can have.  The variable `last` *)
(* holds what the latest handler did: which calls it made and what it      *)
(* answered.                                                               *)
(***************************************************************************)
EXTENDS Integers, Sequences, FiniteSets, TLC

VARIABLES
    now,               \* time.time(), in whole seconds
    muted_users,       \* HyperOSBot.muted_users: a dict, as a set of <<user_id, unmute_timestamp>>
    word_filter_list,  \* CONFIG_CACHE[GUILD_ID]['word_filter_list']
    log_channel_id,    \* CONFIG_CACHE[GUILD_ID]['log_channel_id']
    session,           \* the Flask session of the dashboard's browser
    last,              \* the latest handler run: its inputs, its calls, its answer
    pending,           \* the on_message call stopped between two statements of its cleanup
    muteHistory,       \* history: <<user, expiry>> of the last successful mute, dropped by every unmute call that reaches the platform
    reaction_roles,    \* CONFIG_CACHE[GUILD_ID]['reaction_roles']: a dict, as a set of <<<<message_id, emoji>>, role_id>>
    member_roles,      \* the platform's role set of each guild member
    granted,           \* history: what put the session in the authenticated state, "none" since a logout
    inflight          \* the dashboard's request threads: where each stands in its mute or unmute route

vars == <<now, muted_users, word_filter_list, log_channel_id, session, last,
          pending, muteHistory, reaction_roles, member_roles, granted, inflight>>

----------------------------------------------------------------------------
(* Bounds of the model *)

\* The clock starts at Epoch (time.time() counts from 1970: never near 0) and
\* advances MaxTicks times by TickSeconds.
Epoch == 100000
TickSeconds == 30
MaxTicks == 2

\* The long duration a mute form may carry (29 days is above the 28-day cap).
LongDuration == 29

----------------------------------------------------------------------------
(* Program constants *)

GUILD_ID == "1448175320531468402"
DASHBOARD_ADMIN_USER_ID == "123456789012345678"
FALLBACK_PASSPHRASE == "clyde0805"
FALLBACK_ADMIN == "FALLBACK_ADMIN"

\* Python's None, as a session or form value.
None == "None"

----------------------------------------------------------------------------
(* Strings whose characters matter are sequences of one-character strings *)

UpperChars == <<"A","B","C","D","E","F","G","H","I","J","K","L","M",
                "N","O","P","Q","R","S","T","U","V","W","X","Y","Z">>
LowerChars == <<"a","b","c","d","e","f","g","h","i","j","k","l","m",
                "n","o","p","q","r","s","t","u","v","w","x","y","z">>

\* str.lower() on one character.
LowerChar(c) ==
    IF \E i \in 1..Len(UpperChars) : UpperChars[i] = c
    THEN LowerChars[CHOOSE i \in 1..Len(UpperChars) : UpperChars[i] = c]
    ELSE c

\* message.content.lower()
Lower_identity(s) == s

Lower(s) == [i \in 1..Len(s) |-> LowerChar(s[i])]

\* Python's `word in content` on strings.
Contains(word, content) ==
    \E i \in 1..(Len(content) - Len(word) + 1) :
        SubSeq(content, i, i + Len(word) - 1) = word

badword == <<"b","a","d","w","o","r","d">>
anotherbadword == <<"a","n","o","t","h","e","r">> \o badword

\* The initial CONFIG_CACHE word list.
InitialWordFilterList == <<badword, anotherbadword>>

----------------------------------------------------------------------------
(* A Python dict as a set of <<key, value>> pairs *)

\* d.get(k): the set holding the value, empty for None.
DictGet(d, k) == {e[2] : e \in {x \in d : x[1] = k}}

\* k in d
DictHas(d, k) == \E e \in d : e[1] = k

\* d[k] = v
DictSet(d, k, v) == {e \in d : e[1] # k} \cup {<<k, v>>}

\* del d[k]
DictDel(d, k) == {e \in d : e[1] # k}

----------------------------------------------------------------------------
(* Inputs of the handlers *)

Users == {42, 7}

\* interaction.user of a chat command: whether the member holds the
\* administrator permission, and whether the member has the role MOD_ROLE_ID.
Invokers == [administrator : BOOLEAN, moderator : BOOLEAN]
Administrator == [administrator |-> TRUE, moderator |-> FALSE]
Outsider == [administrator |-> FALSE, moderator |-> FALSE]

\* A member_id as a form or command string: two numeric ids, a non-numeric
\* one, and the empty (or missing) one.
MemberIdInputs == {"42", "7", "abc", ""}

\* str.isdigit()
IsDigit(s) == s \in {"42", "7", "555"}

\* A channel_id as a form string: a numeric id, a non-numeric one, the empty
\* (or missing) one.
ChannelIdInputs == {"555", "abc", ""}

\* int(member_id)
ParseInt(s) == CASE s = "42" -> 42 [] s = "7" -> 7

\* The duration and unit fields of a mute form: a minute, an unknown unit,
\* and a duration above the 28-day cap.
MuteForms == {<<1, "minutes">>, <<1, "fortnights">>, <<LongDuration, "days">>}

\* Outcomes of an external call.  A handler treats every failure of a call
\* alike but for the text it reports (its `except HTTPError` / `except
\* Forbidden` and `except Exception` branches), so one failure stands for them.
\* requests.<verb>(...).raise_for_status()
RestOutcomes == {"ok", "http_error"}
\* message.delete()
DeleteOutcomes == {"ok", "forbidden"}
\* guild.fetch_member()
FetchOutcomes == {"ok", "not_found"}
\* Outcomes of sending the log embed once a log channel id is configured:
\* the channel may be unknown to the client, the send may fail.
LogOutcomes == {"sent", "failed", "no_channel"}

hello == <<"h","e","l","l","o">>
\* Message bodies: clean, empty, a blacklisted word in mixed case inside a
\* longer text, and one that contains both initial words.
Bodies == {hello, <<>>,
           <<"a"," ">> \o <<"B","a","d","W","O","R","D">> \o <<"!">>,
           <<"A","n","o","t","h","e","r">> \o badword}

----------------------------------------------------------------------------
(* What a handler run leaves in `last` *)

NoEvent ==
    [op |-> "init", user |-> 0, result |-> "none",
     hit |-> FALSE,       \* on_message: the mute check was positive
     cleaned |-> FALSE,   \* on_message: the expired entry was deleted
     deletes |-> 0,       \* message.delete() calls made
     deleted |-> FALSE,   \* a message.delete() call succeeded
     ext |-> 0,           \* Discord REST / gateway requests made
     effects |-> 0,       \* those of them that change the platform's state (not a fetch)
     trigger |-> <<>>,    \* on_message: filtered_word, <<>> for None
     log |-> "none",      \* on_message: what became of the log embed
     body |-> <<>>,       \* on_message: message.content
     filter_list |-> <<>>, \* on_message: the list its word filter read
     raw |-> <<>>,        \* set_word_filter, api_update_config: the word list field as given
     sender |-> [bot |-> FALSE, guild |-> TRUE],
                          \* on_message: message.author.bot, and whether the message
                          \* belongs to the guild GUILD_ID
     mute_delete |-> "none", \* on_message: the outcome of the mute check's delete call
     rest |-> "none",     \* the outcome of the handler's moderation request, if made
     prior |-> {},        \* mute and unmute handlers: muted_users.get(key) at entry
     duration |-> 0,      \* mute handlers: the duration given
     seconds |-> 0,       \* mute handlers: the computed duration
     unit |-> "",         \* api_tempmute: the unit field
     action |-> "",       \* api_kick_ban: the action_type field
     prior_session |-> [authenticated |-> FALSE, discord_user_id |-> "None"],
                          \* oauth_callback: the session at entry
     id |-> "",           \* the member, user or channel id field as given
     invoker |-> [administrator |-> FALSE, moderator |-> FALSE],
                          \* chat commands: interaction.user
     calls |-> <<>>,      \* add_reaction_role: the outcomes of the platform calls made, in order
     link |-> <<>>,       \* add_reaction_role: message_link
     channel |-> FALSE,   \* add_reaction_role: bot.get_channel() found the channel
     reaction |-> [guild |-> FALSE, bot |-> FALSE, message_id |-> 0, emoji |-> "",
                   bound |-> {}, role_found |-> FALSE, member_found |-> FALSE],
                          \* reaction events: the payload, the table's answer, the cache's answers
     roles_before |-> <<>>, \* reaction events: member_roles at entry
     before_grant |-> {}] \* on_raw_reaction_remove: member_roles before the grant, when the
                          \* latest handler run was a grant to this member through this pair

Event(op, user, result) ==
    [NoEvent EXCEPT !.op = op, !.user = user, !.result = result]

\* The same for a handler that was given an id field.
EventFor(id, op, user, result) == [Event(op, user, result) EXCEPT !.id = id]

----------------------------------------------------------------------------
(* HyperOSBot.on_message *)

\* `if unmute_time:` on the value of muted_users.get(author.id)
Truthy(unmute_time) == unmute_time # {} /\ unmute_time # {0}

\* `time.time() < unmute_time`
StillMuted(unmute_time, t) == \E v \in unmute_time : t < v

\* The mute check of on_message for a message of `author` at instant t.
MuteCheck(author, t) ==
    LET unmute_time == DictGet(muted_users, author)
    IN  Truthy(unmute_time) /\ StillMuted(unmute_time, t)

\* The check's else branch: `if author.id in self.muted_users: del ...`
ExpiredCleanup_skipped(d, author) == d

ExpiredCleanup(d, author) == IF DictHas(d, author) THEN DictDel(d, author) ELSE d

\* `await message.delete(); ...; return`: the handler returns only when the
\* delete call raised nothing.
StopsAfterMuteDelete_never(hit, delete_mute) == FALSE

StopsAfterMuteDelete(hit, delete_mute) == hit /\ delete_mute = "ok"

\* The word filter's loop: the first word of the list that is non-empty and
\* a substring of the lowercased content; <<>> when there is none.
\* `if word and word in content_lower`
Matches_any_word(word, content_lower) == word # <<>>

Matches(word, content_lower) == word # <<>> /\ Contains(word, content_lower)

FilteredWord(filter_list, content_lower) ==
    LET matches == {i \in 1..Len(filter_list) : Matches(filter_list[i], content_lower)}
    IN  IF matches = {} THEN <<>>
        ELSE filter_list[CHOOSE i \in matches : \A j \in matches : i <= j]

\* `if message.author.bot or not message.guild or message.guild.id != GUILD_ID: return`
Ignored_bots_only(is_bot, in_guild) == is_bot

Ignored(is_bot, in_guild) == is_bot \/ ~in_guild

\* _send_log_embed: nothing is sent without a configured log channel.
LogResult(log_send) == IF log_channel_id = None THEN "no_channel" ELSE log_send

\* The filter's try block: the embed is built and sent after message.delete()
\* has returned; a delete that raises goes to the except branches, which print.
FilterLog_despite_failure(filter_deleted, log_send) == LogResult(log_send)

FilterLog(filter_deleted, log_send) ==
    IF filter_deleted THEN LogResult(log_send) ELSE "none"

\* No on_message call is stopped inside its cleanup.
NoPending ==
    [pc |-> "none", author |-> 0, content |-> <<>>,
     list |-> <<>>,          \* filter_list
     index |-> 0,            \* the position of the word filter's loop in it
     hit |-> FALSE, expired |-> FALSE, delete_mute |-> "none"]
                             \* what the mute check did for this message

\* What on_message leaves in `last`, from the outcome of its mute check on.
MessageResult(author, ignored, stopped, word, hit, expired, content, delete_mute, delete_filter, log_send) ==
    LET is_filtered == word # <<>>
        filter_deleted == is_filtered /\ delete_filter = "ok"
    IN  [Event("on_message", author,
               IF ignored THEN "ignored"
               ELSE IF stopped THEN "mute_deleted"
               ELSE IF filter_deleted THEN "filter_deleted"
               ELSE IF is_filtered THEN "filter_delete_failed"
               ELSE "passed")
         EXCEPT !.hit = hit,
                !.cleaned = expired,
                !.deletes = (IF hit THEN 1 ELSE 0) + (IF is_filtered THEN 1 ELSE 0),
                !.deleted = (hit /\ delete_mute = "ok") \/ filter_deleted,
                !.mute_delete = IF hit THEN delete_mute ELSE "none",
                !.trigger = word,
                !.log = FilterLog(filter_deleted, log_send),
                !.body = content]

MessageOutcome(author, ignored, hit, expired, content, delete_mute, delete_filter, log_send) ==
    LET stopped == StopsAfterMuteDelete(hit, delete_mute)
        word == IF ignored \/ stopped THEN <<>>
                ELSE FilteredWord(word_filter_list, Lower(content))
    IN  MessageResult(author, ignored, stopped, word, hit, expired, content,
                      delete_mute, delete_filter, log_send)

\* The whole handler, run without another thread in between.
on_message(author, is_bot, in_guild, content, delete_mute, delete_filter, log_send) ==
    LET unmute_time == DictGet(muted_users, author)
        ignored == Ignored(is_bot, in_guild)
        sender == [bot |-> is_bot, guild |-> in_guild]
        hit == ~ignored /\ MuteCheck(author, now)
        expired == ~ignored /\ Truthy(unmute_time) /\ ~StillMuted(unmute_time, now)
    IN  /\ pending = NoPending
        /\ muted_users' = IF expired THEN ExpiredCleanup(muted_users, author)
                          ELSE muted_users
        /\ last' = [MessageOutcome(author, ignored, hit, expired, content,
                                   delete_mute, delete_filter, log_send)
                     EXCEPT !.sender = sender]
        /\ UNCHANGED <<now, word_filter_list, log_channel_id, session, pending,
                       muteHistory, reaction_roles, member_roles, granted, inflight>>

(* The same handler, one statement of its cleanup at a time: the dashboard *)
(* runs in another thread and may write muted_users between the read of    *)
(* unmute_time, the `in` test and the `del`.                               *)

\* Up to the comparison with time.time(): a message whose author's entry has
\* expired goes on to the cleanup; any other is handled to its end.
on_message_check(author, is_bot, in_guild, content, delete_mute, delete_filter, log_send) ==
    LET unmute_time == DictGet(muted_users, author)
        ignored == Ignored(is_bot, in_guild)
        sender == [bot |-> is_bot, guild |-> in_guild]
        hit == ~ignored /\ MuteCheck(author, now)
        expired == ~ignored /\ Truthy(unmute_time) /\ ~StillMuted(unmute_time, now)
    IN  /\ pending = NoPending
        /\ IF expired
           THEN /\ pending' = [NoPending EXCEPT !.pc = "test", !.author = author,
                                                 !.content = content]
                /\ UNCHANGED last
           ELSE /\ last' = [MessageOutcome(author, ignored, hit, FALSE, content,
                                           delete_mute, delete_filter, log_send)
                             EXCEPT !.sender = sender]
                /\ UNCHANGED pending
        /\ UNCHANGED <<now, muted_users, word_filter_list, log_channel_id, session,
                       muteHistory, reaction_roles, member_roles, granted, inflight>>

\* `if message.author.id in self.muted_users:`
on_message_test(delete_filter, log_send) ==
    /\ pending.pc = "test"
    /\ IF DictHas(muted_users, pending.author)
       THEN /\ pending' = [pending EXCEPT !.pc = "del"]
            /\ UNCHANGED last
       ELSE /\ pending' = NoPending
            /\ last' = MessageOutcome(pending.author, FALSE, FALSE, TRUE, pending.content,
                                      "none", delete_filter, log_send)
    /\ UNCHANGED <<now, muted_users, word_filter_list, log_channel_id, session,
                   muteHistory, reaction_roles, member_roles, granted, inflight>>

\* `del self.muted_users[message.author.id]`, then the word filter; a key
\* that is gone by now raises KeyError and ends the handler.
on_message_del(delete_filter, log_send) ==
    /\ pending.pc = "del"
    /\ pending' = NoPending
    /\ IF DictHas(muted_users, pending.author)
       THEN /\ muted_users' = DictDel(muted_users, pending.author)
            /\ last' = MessageOutcome(pending.author, FALSE, FALSE, TRUE, pending.content,
                                      "none", delete_filter, log_send)
       ELSE /\ last' = [Event("on_message", pending.author, "key_error")
                        EXCEPT !.cleaned = TRUE, !.body = pending.content]
            /\ UNCHANGED muted_users
    /\ UNCHANGED <<now, word_filter_list, log_channel_id, session,
                   muteHistory, reaction_roles, member_roles, granted, inflight>>

(* The same handler with its word filter one loop iteration at a time: the *)
(* dashboard's thread may replace the word list while the loop runs.       *)

\* `for word in filter_list`: the list the loop walks is the object read
\* into filter_list before the loop.
LoopList_reread(filter_list, current) == current

LoopList(filter_list, current) == filter_list

\* Up to `filter_list = CONFIG_CACHE[GUILD_ID]['word_filter_list']`.
on_message_read(author, is_bot, in_guild, content, delete_mute) ==
    LET unmute_time == DictGet(muted_users, author)
        ignored == Ignored(is_bot, in_guild)
        sender == [bot |-> is_bot, guild |-> in_guild]
        hit == ~ignored /\ MuteCheck(author, now)
        expired == ~ignored /\ Truthy(unmute_time) /\ ~StillMuted(unmute_time, now)
        stopped == StopsAfterMuteDelete(hit, delete_mute)
    IN  /\ pending = NoPending
        /\ muted_users' = IF expired THEN ExpiredCleanup(muted_users, author)
                          ELSE muted_users
        /\ IF ignored \/ stopped
           THEN /\ last' = [MessageResult(author, ignored, stopped, <<>>, hit, expired,
                                          content, delete_mute, "none", "none")
                             EXCEPT !.sender = sender]
                /\ UNCHANGED pending
           ELSE /\ pending' = [NoPending EXCEPT
                                  !.pc = "loop", !.author = author, !.content = content,
                                  !.list = word_filter_list, !.index = 1,
                                  !.hit = hit, !.expired = expired,
                                  !.delete_mute = delete_mute]
                /\ UNCHANGED last
        /\ UNCHANGED <<now, word_filter_list, log_channel_id, session,
                       muteHistory, reaction_roles, member_roles, granted, inflight>>

\* One iteration of the loop; after a match or the end of the list, the rest
\* of the handler.
on_message_loop(delete_filter, log_send) ==
    LET filter_list == LoopList(pending.list, word_filter_list)
        content_lower == Lower(pending.content)
        done(word) ==
            /\ pending' = NoPending
            /\ last' = [MessageResult(pending.author, FALSE, FALSE, word, pending.hit,
                                      pending.expired, pending.content,
                                      pending.delete_mute, delete_filter, log_send)
                        EXCEPT !.filter_list = pending.list]
    IN  /\ pending.pc = "loop"
        /\ IF pending.index > Len(filter_list) THEN done(<<>>)
           ELSE IF Matches(filter_list[pending.index], content_lower)
           THEN done(filter_list[pending.index])
           ELSE /\ pending' = [pending EXCEPT !.index = @ + 1]
                /\ UNCHANGED last
        /\ UNCHANGED <<now, muted_users, word_filter_list, log_channel_id, session,
                       muteHistory, reaction_roles, member_roles, granted, inflight>>

----------------------------------------------------------------------------
(* The dashboard's login_required decorator *)

Authorized_fallback_only(s) ==
    s.authenticated /\ s.discord_user_id = FALLBACK_ADMIN

Authorized(s) ==
    LET is_authenticated == s.authenticated
        user_id == s.discord_user_id
        is_fallback_admin == is_authenticated /\ user_id = FALLBACK_ADMIN
        is_oauth_admin == is_authenticated /\ user_id = DASHBOARD_ADMIN_USER_ID
    IN  is_fallback_admin \/ is_oauth_admin

\* `return redirect(url_for('login', next=request.url))`: the route's body is not run.
LoginRedirect(op) ==
    /\ last' = Event(op, 0, "login_redirect")
    /\ UNCHANGED <<now, muted_users, word_filter_list, log_channel_id, session,
                   pending, muteHistory, reaction_roles, member_roles, granted, inflight>>

\* A handler that answers without touching the registry.
Answer(ev) ==
    /\ last' = ev
    /\ UNCHANGED <<now, muted_users, word_filter_list, log_channel_id, session,
                   pending, muteHistory, reaction_roles, member_roles, granted, inflight>>

----------------------------------------------------------------------------
(* Mute and unmute: /admin timeout, /admin untimeout, /api/tempmute, /api/unmute *)

MaxTimeoutMinutes == 40320

\* The dashboard's unit arithmetic.
ToSeconds_hours_as_minutes(duration, unit) ==
    IF unit = "minutes" THEN duration * 60
    ELSE IF unit = "hours" THEN duration * 60
    ELSE IF unit = "days" THEN duration * 86400
    ELSE 0

ToSeconds(duration, unit) ==
    IF unit = "minutes" THEN duration * 60
    ELSE IF unit = "hours" THEN duration * 3600
    ELSE IF unit = "days" THEN duration * 86400
    ELSE 0

\* `.raise_for_status()` raised on the answer to the timeout request.
Raised_never(outcome) == FALSE

Raised(outcome) == outcome # "ok"

\* `if seconds > (28 * 86400)`
ExceedsCap_never(seconds) == FALSE

ExceedsCap(seconds) == seconds > 28 * 86400

\* `bot.muted_users[key] = timeout_until`, with the history of mutes.
StoreMute_keeps_later_expiry(key, timeout_until) ==
    /\ muted_users' =
          IF \E v \in DictGet(muted_users, key) : v > timeout_until
          THEN muted_users
          ELSE DictSet(muted_users, key, timeout_until)
    /\ muteHistory' = {e \in muteHistory : e[1] # key} \cup {<<key, timeout_until>>}

StoreMute(key, timeout_until) ==
    /\ muted_users' = DictSet(muted_users, key, timeout_until)
    /\ muteHistory' = {e \in muteHistory : e[1] # key} \cup {<<key, timeout_until>>}

\* `if key in bot.muted_users: del bot.muted_users[key]`, with the history.
ClearMute_whole_registry(key) ==
    /\ muted_users' = {}
    /\ muteHistory' = {e \in muteHistory : e[1] # key}

ClearMute(key) ==
    /\ muted_users' = IF DictHas(muted_users, key) THEN DictDel(muted_users, key)
                      ELSE muted_users
    /\ muteHistory' = {e \in muteHistory : e[1] # key}

\* An unmute request that the platform refused: the registry is not touched.
UnmuteRefused_drops_entry(key) ==
    /\ muteHistory' = {e \in muteHistory : e[1] # key}
    /\ muted_users' = DictDel(muted_users, key)

UnmuteRefused(key) ==
    /\ muteHistory' = {e \in muteHistory : e[1] # key}
    /\ UNCHANGED muted_users

\* `@app_commands.checks.has_permissions(administrator=True)`
HasPermissions(invoker) == invoker.administrator

\* What a chat command leaves in `last`.
By(invoker, op, user, result) == [Event(op, user, result) EXCEPT !.invoker = invoker]

ByFor(id, invoker, op, user, result) ==
    [Event(op, user, result) EXCEPT !.invoker = invoker, !.id = id]

\* A command the permission check refused: its body is not run.
Denied(op, invoker) == Answer(By(invoker, op, 0, "denied"))

timeout(invoker, member_id, duration_minutes, fetch, patch) ==
    LET op == "timeout"
        key == ParseInt(member_id)
        seconds == duration_minutes * 60
        timeout_until == now + seconds
        ev(result) == [ByFor(member_id, invoker, op, key, result)
                       EXCEPT !.ext = 2, !.effects = 1, !.rest = patch, !.prior = DictGet(muted_users, key),
                              !.duration = duration_minutes, !.seconds = seconds,
                              !.unit = "minutes"]
    IN  IF ~HasPermissions(invoker) THEN Denied(op, invoker)
        ELSE IF duration_minutes < 1 \/ duration_minutes > MaxTimeoutMinutes
        THEN Answer([ByFor(member_id, invoker, op, 0, "invalid")
                     EXCEPT !.duration = duration_minutes, !.unit = "minutes"])
        ELSE IF ~IsDigit(member_id) THEN Answer(ByFor(member_id, invoker, op, 0, "error"))
        ELSE IF fetch # "ok"
        THEN Answer([ByFor(member_id, invoker, op, key, "error") EXCEPT !.ext = 1])
        ELSE IF Raised(patch)
        THEN Answer(ev("error"))
        ELSE /\ StoreMute(key, timeout_until)
             /\ last' = ev("success")
             /\ UNCHANGED <<now, word_filter_list, log_channel_id, session, pending,
                            reaction_roles, member_roles, granted, inflight>>

api_tempmute(member_id, duration_is_int, duration, unit, patch) ==
    LET op == "api_tempmute"
        key == ParseInt(member_id)
        seconds == ToSeconds(duration, unit)
        timeout_until == now + seconds
        ev(result, requests) ==
            [EventFor(member_id, op, key, result)
             EXCEPT !.ext = requests, !.effects = requests, !.rest = IF requests = 0 THEN "none" ELSE patch,
                    !.prior = DictGet(muted_users, key),
                    !.duration = duration, !.seconds = seconds, !.unit = unit]
    IN  IF ~Authorized(session) THEN LoginRedirect(op)
        ELSE IF ~duration_is_int THEN Answer(EventFor(member_id, op, 0, "server_error"))
        ELSE IF member_id = "" \/ ~IsDigit(member_id)
        THEN Answer(EventFor(member_id, op, 0, "error"))
        ELSE IF ExceedsCap(seconds)
        THEN Answer(ev("error", 0))
        ELSE IF Raised(patch)
        THEN Answer(ev("error", 1))
        ELSE /\ StoreMute(key, timeout_until)
             /\ last' = ev("success", 1)
             /\ UNCHANGED <<now, word_filter_list, log_channel_id, session, pending,
                            reaction_roles, member_roles, granted, inflight>>

untimeout(invoker, member_id, fetch, patch) ==
    LET op == "untimeout"
        key == ParseInt(member_id)
        ev(result) == [ByFor(member_id, invoker, op, key, result)
                       EXCEPT !.ext = 2, !.effects = 1, !.rest = patch, !.prior = DictGet(muted_users, key)]
    IN  IF ~HasPermissions(invoker) THEN Denied(op, invoker)
        ELSE IF ~IsDigit(member_id) THEN Answer(ByFor(member_id, invoker, op, 0, "error"))
        ELSE IF fetch # "ok"
        THEN Answer([ByFor(member_id, invoker, op, key, "error")
                     EXCEPT !.ext = 1, !.prior = DictGet(muted_users, key)])
        ELSE IF patch # "ok"
        THEN /\ UnmuteRefused(key)
             /\ last' = ev("error")
             /\ UNCHANGED <<now, word_filter_list, log_channel_id, session, pending,
                            reaction_roles, member_roles, granted, inflight>>
        ELSE /\ ClearMute(key)
             /\ last' = ev("success")
             /\ UNCHANGED <<now, word_filter_list, log_channel_id, session, pending,
                            reaction_roles, member_roles, granted, inflight>>

api_unmute(member_id, patch) ==
    LET op == "api_unmute"
        key == ParseInt(member_id)
        ev(result) == [EventFor(member_id, op, key, result)
                       EXCEPT !.ext = 1, !.effects = 1, !.rest = patch, !.prior = DictGet(muted_users, key)]
    IN  IF ~Authorized(session) THEN LoginRedirect(op)
        ELSE IF member_id = "" \/ ~IsDigit(member_id)
        THEN Answer(EventFor(member_id, op, 0, "error"))
        ELSE IF patch # "ok"
        THEN /\ UnmuteRefused(key)
             /\ last' = ev("error")
             /\ UNCHANGED <<now, word_filter_list, log_channel_id, session, pending,
                            reaction_roles, member_roles, granted, inflight>>
        ELSE /\ ClearMute(key)
             /\ last' = ev("success")
             /\ UNCHANGED <<now, word_filter_list, log_channel_id, session, pending,
                            reaction_roles, member_roles, granted, inflight>>

(* The same routes and the same command one statement at a time.  The     *)
(* Flask server handles each request in a thread of its own, beside the    *)
(* bot's event loop; the registry is shared and unlocked.  The external    *)
(* call changes the platform's timeout (kept in muteHistory) in one step,  *)
(* the registry is read and written in later steps.                        *)

\* The request threads of the dashboard's server.
Threads == {1, 2}

\* A thread that is handling no mute or unmute request.
NoRequest == [pc |-> "idle", key |-> 0, id |-> "", until |-> 0, duration |-> 0, seconds |-> 0]

\* /api/tempmute up to the PATCH: `timeout_until` is computed before the call.
api_tempmute_patch(t, member_id, duration, unit, patch) ==
    LET op == "api_tempmute"
        key == ParseInt(member_id)
        seconds == ToSeconds(duration, unit)
        timeout_until == now + seconds
        ev(result, requests) ==
            [EventFor(member_id, op, key, result)
             EXCEPT !.ext = requests, !.effects = requests,
                    !.rest = IF requests = 0 THEN "none" ELSE patch,
                    !.duration = duration, !.seconds = seconds, !.unit = unit]
    IN  /\ inflight[t].pc = "idle"
        /\ IF ~Authorized(session) THEN LoginRedirect(op)
           ELSE IF member_id = "" \/ ~IsDigit(member_id)
           THEN Answer(EventFor(member_id, op, 0, "error"))
           ELSE IF ExceedsCap(seconds) THEN Answer(ev("error", 0))
           ELSE IF Raised(patch) THEN Answer(ev("error", 1))
           ELSE /\ muteHistory' = {e \in muteHistory : e[1] # key} \cup {<<key, timeout_until>>}
                /\ inflight' = [inflight EXCEPT ![t] =
                                   [pc |-> "mute_write", key |-> key, id |-> member_id,
                                    until |-> timeout_until, duration |-> duration,
                                    seconds |-> seconds]]
                /\ UNCHANGED <<now, muted_users, word_filter_list, log_channel_id, session,
                               last, pending, reaction_roles, member_roles, granted>>

\* `bot.muted_users[int(member_id)] = timeout_until` and the redirect.
api_tempmute_write(t) ==
    LET req == inflight[t]
    IN  /\ req.pc = "mute_write"
        /\ muted_users' = DictSet(muted_users, req.key, req.until)
        /\ inflight' = [inflight EXCEPT ![t] = NoRequest]
        /\ last' = [EventFor(req.id, "api_tempmute", req.key, "success")
                    EXCEPT !.ext = 1, !.effects = 1, !.rest = "ok",
                           !.duration = req.duration, !.seconds = req.seconds,
                           !.unit = "minutes"]
        /\ UNCHANGED <<now, word_filter_list, log_channel_id, session, pending,
                       muteHistory, reaction_roles, member_roles, granted>>

\* /api/unmute up to the PATCH.
api_unmute_patch(t, member_id, patch) ==
    LET op == "api_unmute"
        key == ParseInt(member_id)
    IN  /\ inflight[t].pc = "idle"
        /\ IF ~Authorized(session) THEN LoginRedirect(op)
           ELSE IF member_id = "" \/ ~IsDigit(member_id)
           THEN Answer(EventFor(member_id, op, 0, "error"))
           ELSE /\ muteHistory' = {e \in muteHistory : e[1] # key}
                /\ IF patch # "ok"
                   THEN /\ last' = [EventFor(member_id, op, key, "error")
                                    EXCEPT !.ext = 1, !.effects = 1, !.rest = patch]
                        /\ UNCHANGED inflight
                   ELSE /\ inflight' = [inflight EXCEPT ![t] =
                                           [NoRequest EXCEPT !.pc = "unmute_test",
                                                             !.key = key, !.id = member_id]]
                        /\ UNCHANGED last
                /\ UNCHANGED <<now, muted_users, word_filter_list, log_channel_id, session,
                               pending, reaction_roles, member_roles, granted>>

\* What /api/unmute leaves in `last` once the platform has accepted its call.
ApiUnmuted(req, result) ==
    [EventFor(req.id, "api_unmute", req.key, result)
     EXCEPT !.ext = 1, !.effects = 1, !.rest = "ok"]

\* `if int(member_id) in bot.muted_users:`
api_unmute_test(t) ==
    LET req == inflight[t]
    IN  /\ req.pc = "unmute_test"
        /\ IF DictHas(muted_users, req.key)
           THEN /\ inflight' = [inflight EXCEPT ![t].pc = "unmute_del"]
                /\ UNCHANGED last
           ELSE /\ inflight' = [inflight EXCEPT ![t] = NoRequest]
                /\ last' = ApiUnmuted(req, "success")
        /\ UNCHANGED <<now, muted_users, word_filter_list, log_channel_id, session,
                       pending, muteHistory, reaction_roles, member_roles, granted>>

\* `del bot.muted_users[int(member_id)]`; a key that is gone by now raises
\* KeyError, which `except Exception` turns into the error redirect.
api_unmute_del(t) ==
    LET req == inflight[t]
    IN  /\ req.pc = "unmute_del"
        /\ inflight' = [inflight EXCEPT ![t] = NoRequest]
        /\ IF DictHas(muted_users, req.key)
           THEN /\ muted_users' = DictDel(muted_users, req.key)
                /\ last' = ApiUnmuted(req, "success")
           ELSE /\ last' = ApiUnmuted(req, "error")
                /\ UNCHANGED muted_users
        /\ UNCHANGED <<now, word_filter_list, log_channel_id, session, pending,
                       muteHistory, reaction_roles, member_roles, granted>>

\* /admin untimeout up to the PATCH.  requests.patch blocks the event loop
\* and no await follows before the `del`: no other handler of the bot runs
\* in between, the dashboard's threads do.
untimeout_patch(invoker, member_id, fetch, patch) ==
    LET op == "untimeout"
        key == ParseInt(member_id)
    IN  /\ pending = NoPending
        /\ IF ~HasPermissions(invoker) THEN Denied(op, invoker)
           ELSE IF ~IsDigit(member_id) THEN Answer(ByFor(member_id, invoker, op, 0, "error"))
           ELSE IF fetch # "ok"
           THEN Answer([ByFor(member_id, invoker, op, key, "error") EXCEPT !.ext = 1])
           ELSE /\ muteHistory' = {e \in muteHistory : e[1] # key}
                /\ IF patch # "ok"
                   THEN /\ last' = [ByFor(member_id, invoker, op, key, "error")
                                    EXCEPT !.ext = 2, !.effects = 1, !.rest = patch]
                        /\ UNCHANGED pending
                   ELSE /\ pending' = [NoPending EXCEPT !.pc = "untimeout_test",
                                                        !.author = key]
                        /\ UNCHANGED last
                /\ UNCHANGED <<now, muted_users, word_filter_list, log_channel_id, session,
                               reaction_roles, member_roles, granted, inflight>>

\* What /admin untimeout leaves in `last` once the platform has accepted its call.
Untimedout(key, result) ==
    [By(Administrator, "untimeout", key, result)
     EXCEPT !.ext = 2, !.effects = 1, !.rest = "ok"]

\* `if member.id in bot.muted_users:`
untimeout_test ==
    /\ pending.pc = "untimeout_test"
    /\ IF DictHas(muted_users, pending.author)
       THEN /\ pending' = [pending EXCEPT !.pc = "untimeout_del"]
            /\ UNCHANGED last
       ELSE /\ pending' = NoPending
            /\ last' = Untimedout(pending.author, "success")
    /\ UNCHANGED <<now, muted_users, word_filter_list, log_channel_id, session,
                   muteHistory, reaction_roles, member_roles, granted, inflight>>

\* `del bot.muted_users[member.id]`; KeyError goes to `except Exception`.
untimeout_del ==
    /\ pending.pc = "untimeout_del"
    /\ pending' = NoPending
    /\ IF DictHas(muted_users, pending.author)
       THEN /\ muted_users' = DictDel(muted_users, pending.author)
            /\ last' = Untimedout(pending.author, "success")
       ELSE /\ last' = Untimedout(pending.author, "error")
            /\ UNCHANGED muted_users
    /\ UNCHANGED <<now, word_filter_list, log_channel_id, session,
                   muteHistory, reaction_roles, member_roles, granted, inflight>>

----------------------------------------------------------------------------
(* Kick, ban, unban: /api/kick_ban, /admin ban, /admin unban *)

ActionTypes == {"kick", "tempban", "unban", "promote"}

\* Outcomes of guild.ban / guild.unban
BanOutcomes == {"ok", "forbidden"}

\* The action_type branches of api_kick_ban: the requests each one makes.
KickBanRequests_tempban_twice(action_type) ==
    IF action_type = "tempban" THEN 2
    ELSE IF action_type \in {"kick", "unban"} THEN 1
    ELSE 0

KickBanRequests(action_type) ==
    IF action_type = "kick" THEN 1
    ELSE IF action_type = "tempban" THEN 1
    ELSE IF action_type = "unban" THEN 1
    ELSE 0

api_kick_ban(member_id, action_type, rest) ==
    LET op == "api_kick_ban"
        key == ParseInt(member_id)
        requests == KickBanRequests(action_type)
        ev(result) == [EventFor(member_id, op, key, result)
                       EXCEPT !.ext = requests, !.effects = requests,
                              !.rest = IF requests = 0 THEN "none" ELSE rest,
                              !.action = action_type]
    IN  IF ~Authorized(session) THEN LoginRedirect(op)
        ELSE IF member_id = "" \/ ~IsDigit(member_id)
        THEN Answer([EventFor(member_id, op, 0, "error") EXCEPT !.action = action_type])
        ELSE IF requests > 0 /\ rest # "ok"
        THEN Answer(ev("error"))
        ELSE IF requests > 0
        THEN Answer(ev("success"))
        \* no branch taken: status_message is still "" at the redirect
        ELSE Answer(ev("empty_status"))

ban(invoker, user_id, outcome) ==
    LET op == "ban"
    IN  IF ~HasPermissions(invoker) THEN Denied(op, invoker)
        ELSE IF ~IsDigit(user_id) THEN Answer(ByFor(user_id, invoker, op, 0, "error"))
        ELSE Answer([ByFor(user_id, invoker, op, ParseInt(user_id),
                           IF outcome = "ok" THEN "success" ELSE "error")
                     EXCEPT !.ext = 1, !.effects = 1, !.rest = outcome])

unban(invoker, user_id, outcome) ==
    LET op == "unban"
    IN  IF ~HasPermissions(invoker) THEN Denied(op, invoker)
        ELSE IF ~IsDigit(user_id) THEN Answer(ByFor(user_id, invoker, op, 0, "error"))
        ELSE Answer([ByFor(user_id, invoker, op, ParseInt(user_id),
                           IF outcome = "ok" THEN "success" ELSE "error")
                     EXCEPT !.ext = 1, !.effects = 1, !.rest = outcome])

----------------------------------------------------------------------------
(* Configuration: /api/config, /admin set-log-channel, /admin set-word-filter *)

Spam == <<"S","p","a","m">>

\* Word-filter fields as typed: empty, " Spam, ", "badword", "word, Bad"
\* and ",<tab>bad ,".
RawWordLists == {<<>>, <<" ">> \o Spam \o <<",", " ">>, badword}
RawWordFields ==
    RawWordLists \cup { <<"w","o","r","d",","," ","B","a","d">>,
                        <<",","\t","b","a","d"," ",",">> }

\* The whitespace the fields carry.
Whitespace == {" ", "\t"}

\* str.strip()
RECURSIVE Strip(_)
Strip(w) ==
    IF w = <<>> THEN w
    ELSE IF Head(w) \in Whitespace THEN Strip(Tail(w))
    ELSE IF w[Len(w)] \in Whitespace THEN Strip(SubSeq(w, 1, Len(w) - 1))
    ELSE w

\* str.split(sep)
RECURSIVE SplitOn(_, _)
SplitOn(sep, s) ==
    IF s = <<>> THEN << <<>> >>
    ELSE LET rest == SplitOn(sep, Tail(s))
         IN  IF Head(s) = sep THEN << <<>> >> \o rest
             ELSE << <<Head(s)>> \o Head(rest) >> \o Tail(rest)

\* `[w.strip().lower() for w in words if w.strip()]`
ProcessWords_unfiltered(words) == [i \in 1..Len(words) |-> Lower(Strip(words[i]))]

RECURSIVE ProcessWords(_)
ProcessWords(words) ==
    IF words = <<>> THEN <<>>
    ELSE IF Strip(Head(words)) = <<>> THEN ProcessWords(Tail(words))
    ELSE <<Lower(Strip(Head(words)))>> \o ProcessWords(Tail(words))

\* `[w.strip().lower() for w in raw.split(',') if w.strip()]`
NewWordList(raw) == ProcessWords(SplitOn(",", raw))

\* The two assignments to CONFIG_CACHE[GUILD_ID] of api_update_config.
StoreConfig(new_log_id, new_word_list) ==
    /\ log_channel_id' = new_log_id
    /\ word_filter_list' = new_word_list

api_update_config(new_log_id_str, word_filter_raw) ==
    LET op == "api_update_config"
    IN  IF ~Authorized(session) THEN LoginRedirect(op)
        ELSE IF new_log_id_str # "" /\ ~IsDigit(new_log_id_str)
        THEN Answer(Event(op, 0, "error"))
        ELSE /\ StoreConfig(IF new_log_id_str # "" THEN new_log_id_str ELSE None,
                            NewWordList(Strip(word_filter_raw)))
             /\ last' = [Event(op, 0, "success") EXCEPT !.raw = word_filter_raw]
             /\ UNCHANGED <<now, muted_users, session, pending, muteHistory,
                            reaction_roles, member_roles, granted, inflight>>

\* The channel argument is a channel of the guild, resolved by the library.
set_log_channel(invoker, channel_id) ==
    LET op == "set_log_channel"
    IN  IF ~HasPermissions(invoker) THEN Denied(op, invoker)
        ELSE /\ log_channel_id' = channel_id
             /\ last' = By(invoker, op, 0, "success")
             /\ UNCHANGED <<now, muted_users, word_filter_list, session, pending,
                            muteHistory, reaction_roles, member_roles, granted, inflight>>

set_word_filter(invoker, words) ==
    LET op == "set_word_filter"
    IN  IF ~HasPermissions(invoker) THEN Denied(op, invoker)
        ELSE /\ word_filter_list' = NewWordList(words)
             /\ last' = [By(invoker, op, 0, "success") EXCEPT !.raw = words]
             /\ UNCHANGED <<now, muted_users, log_channel_id, session, pending,
                            muteHistory, reaction_roles, member_roles, granted, inflight>>

----------------------------------------------------------------------------
(* Prune, kick, nickname, message send *)

\* `if count < 1 or count > 100`, and Range[int, 1, 100] of /admin prune
PruneMax == 100

CountOutOfRange(count) == count < 1 \/ count > PruneMax

\* POST /api/prune.  int() of the count field is taken before any check and
\* outside the try: a field that is no integer ends the handler with ValueError.
api_prune(channel_id, count_is_int, count, get, post) ==
    LET op == "api_prune"
        ev(result, requests, changes) ==
            [EventFor(channel_id, op, 0, result)
             EXCEPT !.ext = requests, !.effects = changes, !.duration = count,
                    !.rest = IF requests = 2 THEN post ELSE IF requests = 1 THEN get ELSE "none"]
    IN  IF ~Authorized(session) THEN LoginRedirect(op)
        ELSE IF ~count_is_int THEN Answer(EventFor(channel_id, op, 0, "server_error"))
        ELSE IF channel_id = "" \/ ~IsDigit(channel_id) THEN Answer(ev("error", 0, 0))
        ELSE IF CountOutOfRange(count) THEN Answer(ev("error", 0, 0))
        ELSE IF get # "ok" THEN Answer(ev("error", 1, 0))
        ELSE IF post # "ok" THEN Answer(ev("error", 2, 1))
        ELSE Answer(ev("success", 2, 1))

\* /admin prune: the count is held to 1..100 by the command's signature.
prune(invoker, count, purge) ==
    LET op == "prune"
    IN  IF ~HasPermissions(invoker) THEN Denied(op, invoker)
        ELSE IF CountOutOfRange(count)
        THEN Answer([By(invoker, op, 0, "invalid") EXCEPT !.duration = count])
        ELSE Answer([By(invoker, op, 0, IF purge = "ok" THEN "success" ELSE "error")
                     EXCEPT !.ext = 1, !.effects = 1, !.rest = purge, !.duration = count])

\* /admin kick
kick(invoker, member_id, fetch, outcome) ==
    LET op == "kick"
        key == ParseInt(member_id)
    IN  IF ~HasPermissions(invoker) THEN Denied(op, invoker)
        ELSE IF ~IsDigit(member_id) THEN Answer(ByFor(member_id, invoker, op, 0, "error"))
        ELSE IF fetch # "ok"
        THEN Answer([ByFor(member_id, invoker, op, key, "error") EXCEPT !.ext = 1])
        ELSE Answer([ByFor(member_id, invoker, op, key, IF outcome = "ok" THEN "success" ELSE "error")
                     EXCEPT !.ext = 2, !.effects = 1, !.rest = outcome])

\* POST /api/change_nickname
api_change_nickname(nickname_given, patch) ==
    LET op == "api_change_nickname"
    IN  IF ~Authorized(session) THEN LoginRedirect(op)
        ELSE IF ~nickname_given THEN Answer(Event(op, 0, "error"))
        ELSE Answer([Event(op, 0, IF patch = "ok" THEN "success" ELSE "error")
                     EXCEPT !.ext = 1, !.effects = 1, !.rest = patch])

\* What _get_or_create_webhook finds: a webhook of its name, none (or a
\* failed listing) followed by a creation that succeeds, or one that fails.
WebhookOutcomes == {"found", "created", "create_failed"}

\* The requests _get_or_create_webhook makes: the listing, and the creation.
WebhookRequests(webhook) == IF webhook = "found" THEN 1 ELSE 2

\* POST /api/send_message
api_send_message(channel_id, message_given, webhook, post) ==
    LET op == "api_send_message"
        lookup == WebhookRequests(webhook)
        ev(result, requests, changes) ==
            [EventFor(channel_id, op, 0, result)
             EXCEPT !.ext = requests, !.effects = changes,
                    !.rest = IF requests > lookup THEN post ELSE "none"]
    IN  IF ~Authorized(session) THEN LoginRedirect(op)
        ELSE IF channel_id = "" \/ ~IsDigit(channel_id) THEN Answer(ev("error", 0, 0))
        ELSE IF ~message_given THEN Answer(ev("error", 0, 0))
        ELSE IF webhook = "create_failed" THEN Answer(ev("error", lookup, lookup - 1))
        ELSE IF post # "ok" THEN Answer(ev("error", lookup + 1, lookup))
        ELSE Answer(ev("success", lookup + 1, lookup))

----------------------------------------------------------------------------
(* The dashboard's session: /login, /oauth_callback, /logout, /dashboard, / *)

NoSession == [authenticated |-> FALSE, discord_user_id |-> None]

Passphrases == {FALLBACK_PASSPHRASE, "letmein", None}
\* Identities the identity provider may return.
Identities == {DASHBOARD_ADMIN_USER_ID, "999"}

SessionAnswer(new_session, ev) ==
    /\ session' = new_session
    /\ last' = ev
    /\ UNCHANGED <<now, muted_users, word_filter_list, log_channel_id,
                   pending, muteHistory, reaction_roles, member_roles, inflight>>

\* `passphrase == FALLBACK_PASSPHRASE`
PassphraseAccepted_any(passphrase) == passphrase # None

PassphraseAccepted(passphrase) == passphrase = FALLBACK_PASSPHRASE

\* `user_id == DASHBOARD_ADMIN_USER_ID`
IdentityAccepted_any(user_id) == TRUE

IdentityAccepted(user_id) == user_id = DASHBOARD_ADMIN_USER_ID

login(method, passphrase) ==
    /\ IF method = "POST" /\ PassphraseAccepted(passphrase)
       THEN SessionAnswer([authenticated |-> TRUE, discord_user_id |-> FALLBACK_ADMIN],
                          Event("login", 0, "success"))
       ELSE IF method = "POST"
       THEN SessionAnswer(session, Event("login", 0, "login_page_error"))
       ELSE SessionAnswer(session, Event("login", 0, "login_page"))
    /\ granted' = IF method = "POST" /\ passphrase = FALLBACK_PASSPHRASE
                  THEN "passphrase" ELSE granted

oauth_callback(code_present, token, identity, user_id) ==
    LET op == "oauth_callback"
        ev(result, requests) ==
            [Event(op, 0, result) EXCEPT !.ext = requests, !.prior_session = session]
    IN  /\ IF ~code_present
           THEN SessionAnswer(session, ev("login_error", 0))
           ELSE IF token # "ok"
           THEN SessionAnswer(session, ev("login_error", 1))
           ELSE IF identity # "ok"
           THEN SessionAnswer(session, ev("login_error", 2))
           ELSE IF IdentityAccepted(user_id)
           THEN SessionAnswer([authenticated |-> TRUE, discord_user_id |-> user_id],
                              ev("success", 2))
           ELSE SessionAnswer(session, ev("logout_redirect", 2))
        /\ granted' = IF code_present /\ token = "ok" /\ identity = "ok"
                         /\ user_id = DASHBOARD_ADMIN_USER_ID
                      THEN "identity" ELSE granted

logout ==
    /\ SessionAnswer(NoSession, Event("logout", 0, "login_error"))
    /\ granted' = "none"

\* GET /dashboard: _get_guild_channels makes one request and catches its failure.
dashboard ==
    IF ~Authorized(session) THEN LoginRedirect("dashboard")
    ELSE Answer([Event("dashboard", 0, "page") EXCEPT !.ext = 1])

\* GET /
home ==
    IF ~Authorized(session) THEN LoginRedirect("home")
    ELSE Answer(Event("home", 0, "dashboard_redirect"))

----------------------------------------------------------------------------
(* Reaction roles: /addreactionrole, on_raw_reaction_add, on_raw_reaction_remove *)

Roles == {90, 91}
Emojis == {"thumbsup", "star"}
MessageIds == {42}

DecimalChars == <<"0","1","2","3","4","5","6","7","8","9">>

\* int(s) of Python succeeds on a non-empty run of decimal digits (leading
\* zeros allowed); the strings used here contain no sign, space or underscore.
IsInt(s) == s # <<>> /\ \A i \in DOMAIN s : \E d \in DOMAIN DecimalChars : DecimalChars[d] = s[i]

DigitValue(c) == (CHOOSE d \in DOMAIN DecimalChars : DecimalChars[d] = c) - 1

RECURSIVE IntOf(_)
IntOf(s) ==
    IF s = <<>> THEN 0
    ELSE IntOf(SubSeq(s, 1, Len(s) - 1)) * 10 + DigitValue(s[Len(s)])

\* str(n) for n >= 0
RECURSIVE StrOf(_)
StrOf(n) ==
    IF n < 10 THEN <<DecimalChars[n + 1]>>
    ELSE StrOf(n \div 10) \o <<DecimalChars[(n % 10) + 1]>>

\* message_link.split('/')
RECURSIVE Split(_)
Split(s) ==
    IF s = <<>> THEN << <<>> >>
    ELSE LET rest == Split(Tail(s))
         IN  IF Head(s) = "/" THEN << <<>> >> \o rest
             ELSE << <<Head(s)>> \o Head(rest) >> \o Tail(rest)

\* Message links: a full one, one of two parts, one whose message id has a
\* leading zero, one whose channel id is no number, one without message id.
FullLink == <<"c","/","5","5","5","/","4","2">>
Links == { FullLink,
           <<"5","5","5","/","4","2">>,
           <<"c","/","5","5","5","/","0","4","2">>,
           <<"c","/","x","/","4","2">>,
           <<"c","/","5","5","5","/">> }

\* channel.fetch_message(), message.add_reaction()
ReactionSetupOutcomes == {"ok", "not_found", "forbidden", "http_error"}
\* member.add_roles(), member.remove_roles()
RoleOutcomes == {"ok", "forbidden", "http_error"}

\* `if message_id not in rr_config: rr_config[message_id] = {}` and
\* `rr_config[message_id][emoji] = str(role.id)`
StoreBinding(rr_config, message_id, emoji, role) ==
    DictSet(rr_config, <<message_id, emoji>>, StrOf(role))

\* `str(payload.message_id) in rr_config` and `emoji_id in message_map`:
\* the role id bound to the pair, {} when either lookup misses.
LookupBinding(rr_config, message_id, emoji) ==
    DictGet(rr_config, <<StrOf(message_id), emoji>>)

add_reaction_role(invoker, message_link, emoji, role, channel_found, fetch, react) ==
    LET op == "add_reaction_role"
        parts == Split(message_link)
        message_id == parts[Len(parts)]
        channel_id == parts[Len(parts) - 1]
        ev(result, calls) ==
            [By(invoker, op, 0, result) EXCEPT
                !.link = message_link, !.channel = channel_found, !.calls = calls,
                !.ext = Len(calls),
                !.effects = IF Len(calls) = 2 /\ calls[2] = "ok" THEN 1 ELSE 0]
    IN  IF ~HasPermissions(invoker) THEN Denied(op, invoker)
        ELSE IF Len(parts) < 3 THEN Answer(ev("invalid", <<>>))
        ELSE IF ~IsInt(channel_id) THEN Answer(ev("error", <<>>))
        ELSE IF ~channel_found THEN Answer(ev("error", <<>>))
        ELSE IF ~IsInt(message_id) THEN Answer(ev("error", <<>>))
        ELSE IF Raised(fetch) THEN Answer(ev("error", <<fetch>>))
        ELSE IF Raised(react) THEN Answer(ev("error", <<fetch, react>>))
        ELSE /\ reaction_roles' = StoreBinding(reaction_roles, message_id, emoji, role)
             /\ last' = ev("success", <<fetch, react>>)
             /\ UNCHANGED <<now, muted_users, word_filter_list, log_channel_id, session,
                            pending, muteHistory, member_roles, granted, inflight>>

\* What a reaction event leaves in `last`.
ReactionEvent(op, user, result, payload, calls) ==
    [Event(op, user, result) EXCEPT
        !.reaction = payload, !.roles_before = member_roles,
        !.before_grant =
            IF /\ op = "on_raw_reaction_remove"
               /\ last.op = "on_raw_reaction_add" /\ last.result = "ok"
               /\ last.user = user
               /\ last.reaction.message_id = payload.message_id
               /\ last.reaction.emoji = payload.emoji
            THEN {last.roles_before} ELSE {},
        !.ext = calls, !.effects = IF result = "ok" THEN calls ELSE 0,
        !.rest = IF calls = 0 THEN "none" ELSE result]

\* A reaction event that ends without a role change.
NoRoleChange(ev) ==
    /\ last' = ev
    /\ UNCHANGED <<now, muted_users, word_filter_list, log_channel_id, session,
                   pending, muteHistory, reaction_roles, member_roles, granted, inflight>>

RoleChange(ev, roles) ==
    /\ last' = ev
    /\ member_roles' = roles
    /\ UNCHANGED <<now, muted_users, word_filter_list, log_channel_id, session,
                   pending, muteHistory, reaction_roles, granted, inflight>>

\* `await payload.member.add_roles(role)`
add_roles(roles, role) == roles \cup {role}

\* `await member.remove_roles(role)`
remove_roles_keep(roles, role) == roles

remove_roles(roles, role) == roles \ {role}

\* `if payload.guild_id != GUILD_ID or payload.member.bot: return`
SkipsReactor_never(in_guild, is_bot) == ~in_guild

SkipsReactor(in_guild, is_bot) == ~in_guild \/ is_bot

on_raw_reaction_add(in_guild, user, is_bot, message_id, emoji, role_found, outcome) ==
    LET op == "on_raw_reaction_add"
        role_id == LookupBinding(reaction_roles, message_id, emoji)
        payload == [guild |-> in_guild, bot |-> is_bot, message_id |-> message_id,
                    emoji |-> emoji, bound |-> role_id,
                    role_found |-> role_found, member_found |-> TRUE]
        ev(result, calls) == ReactionEvent(op, user, result, payload, calls)
    IN  IF SkipsReactor(in_guild, is_bot) THEN NoRoleChange(ev("ignored", 0))
        ELSE IF role_id = {} THEN NoRoleChange(ev("unbound", 0))
        ELSE IF ~role_found THEN NoRoleChange(ev("no_role", 0))
        ELSE IF outcome # "ok" THEN NoRoleChange(ev(outcome, 1))
        ELSE LET role == IntOf(CHOOSE r \in role_id : TRUE)
             IN  RoleChange(ev("ok", 1),
                            [member_roles EXCEPT ![user] = add_roles(@, role)])

on_raw_reaction_remove(in_guild, user, is_bot, message_id, emoji, role_found, member_found, outcome) ==
    LET op == "on_raw_reaction_remove"
        role_id == LookupBinding(reaction_roles, message_id, emoji)
        payload == [guild |-> in_guild, bot |-> is_bot, message_id |-> message_id,
                    emoji |-> emoji, bound |-> role_id,
                    role_found |-> role_found, member_found |-> member_found]
        ev(result, calls) == ReactionEvent(op, user, result, payload, calls)
    IN  IF ~in_guild THEN NoRoleChange(ev("ignored", 0))
        ELSE IF role_id = {} THEN NoRoleChange(ev("unbound", 0))
        ELSE IF ~(role_found /\ member_found) THEN NoRoleChange(ev("no_role", 0))
        ELSE IF outcome # "ok" THEN NoRoleChange(ev(outcome, 1))
        ELSE LET role == IntOf(CHOOSE r \in role_id : TRUE)
             IN  RoleChange(ev("ok", 1),
                            [member_roles EXCEPT ![user] = remove_roles(@, role)])

\* Someone else changes a member's roles on the platform.
guild_member_update(user, roles) ==
    /\ roles # member_roles[user]
    /\ RoleChange(Event("guild_member_update", user, "none"),
                  [member_roles EXCEPT ![user] = roles])

----------------------------------------------------------------------------
(* The clock *)

Tick ==
    /\ now < Epoch + MaxTicks * TickSeconds
    /\ now' = now + TickSeconds
    /\ last' = Event("tick", 0, "none")
    /\ UNCHANGED <<muted_users, word_filter_list, log_channel_id, session,
                   pending, muteHistory, reaction_roles, member_roles, granted, inflight>>

----------------------------------------------------------------------------
(* The system *)

Init ==
    /\ now = Epoch
    /\ muted_users = {}
    /\ word_filter_list = InitialWordFilterList
    /\ log_channel_id = None
    /\ session = NoSession
    /\ last = NoEvent
    /\ pending = NoPending
    /\ muteHistory = {}
    /\ reaction_roles = {}
    /\ member_roles = [u \in Users |-> {}]
    /\ granted = "none"
    /\ inflight = [t \in Threads |-> NoRequest]

\* The log embed's fate is an input only once a log channel is configured.
LogInputs == IF log_channel_id = None THEN {"no_channel"} ELSE LogOutcomes

OnMessage ==
    \E author \in Users, is_bot \in BOOLEAN, in_guild \in BOOLEAN, content \in Bodies,
       delete_mute \in DeleteOutcomes, delete_filter \in DeleteOutcomes,
       log_send \in LogInputs :
        on_message(author, is_bot, in_guild, content, delete_mute, delete_filter, log_send)

\* Messages that no word of the filter list matches.
OnCleanMessage ==
    \E author \in Users, is_bot \in BOOLEAN, in_guild \in BOOLEAN,
       delete_mute \in DeleteOutcomes :
        on_message(author, is_bot, in_guild, hello, delete_mute, "ok", "no_channel")

Timeout ==
    \E invoker \in {Administrator, Outsider}, member_id \in MemberIdInputs,
       duration_minutes \in {1, MaxTimeoutMinutes + 1},
       fetch \in FetchOutcomes, patch \in RestOutcomes :
        timeout(invoker, member_id, duration_minutes, fetch, patch)

\* A moderator's one-minute timeout that the platform accepts or refuses.
TimeoutOneMinute ==
    \E member_id \in {"42", "7"}, patch \in RestOutcomes :
        timeout(Administrator, member_id, 1, "ok", patch)

Untimeout ==
    \E invoker \in {Administrator, Outsider}, member_id \in MemberIdInputs,
       fetch \in FetchOutcomes, patch \in RestOutcomes :
        untimeout(invoker, member_id, fetch, patch)

ApiTempmute ==
    \E member_id \in MemberIdInputs, duration_is_int \in BOOLEAN,
       form \in MuteForms, patch \in RestOutcomes :
        api_tempmute(member_id, duration_is_int, form[1], form[2], patch)

ApiUnmute ==
    \E member_id \in MemberIdInputs, patch \in RestOutcomes :
        api_unmute(member_id, patch)

ApiKickBan ==
    \E member_id \in MemberIdInputs, action_type \in ActionTypes, rest \in RestOutcomes :
        api_kick_ban(member_id, action_type, rest)

Ban == \E invoker \in Invokers, user_id \in MemberIdInputs, outcome \in BanOutcomes :
        ban(invoker, user_id, outcome)

Unban == \E invoker \in Invokers, user_id \in MemberIdInputs, outcome \in BanOutcomes :
        unban(invoker, user_id, outcome)

Login == \E method \in {"GET", "POST"}, passphrase \in Passphrases :
        login(method, passphrase)

\* The administrator logging in with the passphrase.
LoginAdmin == login("POST", FALLBACK_PASSPHRASE)

OauthCallback ==
    \E code_present \in BOOLEAN, token \in RestOutcomes, identity \in RestOutcomes,
       user_id \in Identities :
        oauth_callback(code_present, token, identity, user_id)

Logout == logout

Dashboard == dashboard

Home == home

ApiUpdateConfig ==
    \E new_log_id_str \in ChannelIdInputs, word_filter_raw \in RawWordLists :
        api_update_config(new_log_id_str, word_filter_raw)

(* The mute registry: every handler that reads or writes muted_users, the   *)
(* clock, and the administrator's session.                                  *)
Next ==
    \/ OnCleanMessage
    \/ Timeout
    \/ Untimeout
    \/ ApiTempmute
    \/ ApiUnmute
    \/ LoginAdmin
    \/ Logout
    \/ Tick

Spec == Init /\ [][Next]_vars

(* The event filter: messages with every body, a moderator's timeouts, the   *)
(* clock.                                                                   *)
NextFilter ==
    \/ OnMessage
    \/ TimeoutOneMinute
    \/ Tick

SpecFilter == Init /\ [][NextFilter]_vars

(* The dashboard: its session routes and every route behind login_required. *)
NextAuth ==
    \/ Login
    \/ OauthCallback
    \/ Logout
    \/ Dashboard
    \/ Home
    \/ ApiTempmute
    \/ ApiUnmute
    \/ ApiKickBan
    \/ ApiUpdateConfig

SpecAuth == Init /\ [][NextAuth]_vars

(* The duration arithmetic of the two mute handlers, over a range of        *)
(* durations and units.                                                     *)
MaxDuration == 5
ConvUnits == {"minutes", "hours", "days", "fortnights", ""}

ApiTempmuteDurations ==
    \E duration \in (0 - 1)..MaxDuration, unit \in ConvUnits, patch \in RestOutcomes :
        api_tempmute("42", TRUE, duration, unit, patch)

TimeoutDurations ==
    \E duration_minutes \in 1..MaxDuration, patch \in RestOutcomes :
        timeout(Administrator, "42", duration_minutes, "ok", patch)

\* Durations at the 28-day cap and one step beyond it.
ApiTempmuteCap ==
    \E duration \in {28, LongDuration}, member_id \in {"42", "abc"}, patch \in RestOutcomes :
        api_tempmute(member_id, TRUE, duration, "days", patch)

TimeoutCap ==
    \E duration_minutes \in {0, MaxTimeoutMinutes, MaxTimeoutMinutes + 1},
       patch \in RestOutcomes :
        timeout(Administrator, "42", duration_minutes, "ok", patch)

NextConv ==
    \/ LoginAdmin
    \/ ApiTempmuteDurations
    \/ TimeoutDurations
    \/ ApiTempmuteCap
    \/ TimeoutCap

SpecConv == Init /\ [][NextConv]_vars

(* The event filter beside the dashboard's mute route: the cleanup of       *)
(* on_message statement by statement, /api/tempmute in its own thread.      *)
OnMessageCheck ==
    \E author \in Users, delete_mute \in DeleteOutcomes :
        on_message_check(author, FALSE, TRUE, hello, delete_mute, "ok", "no_channel")

OnMessageTest == on_message_test("ok", "no_channel")

OnMessageDel == on_message_del("ok", "no_channel")

ApiTempmuteMinute ==
    \E member_id \in {"42", "7"}, patch \in RestOutcomes :
        api_tempmute(member_id, TRUE, 1, "minutes", patch)

NextThreads ==
    \/ OnMessageCheck
    \/ OnMessageTest
    \/ OnMessageDel
    \/ ApiTempmuteMinute
    \/ LoginAdmin
    \/ Tick

SpecThreads == Init /\ [][NextThreads]_vars

(* Removals of one entry from several contexts: the cleanup of on_message   *)
(* in the event loop, /api/unmute in the dashboard's request threads, each  *)
(* statement by statement.                                                  *)
ApiUnmutePatch ==
    \E t \in Threads, member_id \in {"42", "7"}, patch \in RestOutcomes :
        api_unmute_patch(t, member_id, patch)

ApiUnmuteTest == \E t \in Threads : api_unmute_test(t)

ApiUnmuteDel == \E t \in Threads : api_unmute_del(t)

NextRemovals ==
    \/ OnMessageCheck
    \/ OnMessageTest
    \/ OnMessageDel
    \/ ApiUnmutePatch
    \/ ApiUnmuteTest
    \/ ApiUnmuteDel
    \/ ApiTempmuteMinute
    \/ LoginAdmin
    \/ Tick

SpecRemovals == Init /\ [][NextRemovals]_vars

(* A mute beside an unmute: /api/tempmute in a request thread, /admin       *)
(* untimeout in the event loop and /api/unmute in a request thread, each    *)
(* statement by statement, every external call accepted by the platform.    *)
ApiTempmutePatch ==
    \E t \in Threads, member_id \in {"42", "7"}, duration \in {1, 2} :
        api_tempmute_patch(t, member_id, duration, "minutes", "ok")

ApiTempmuteWrite == \E t \in Threads : api_tempmute_write(t)

ApiUnmuteAccepted ==
    \E t \in Threads, member_id \in {"42", "7"} : api_unmute_patch(t, member_id, "ok")

UntimeoutPatch ==
    \E member_id \in {"42", "7"} : untimeout_patch(Administrator, member_id, "ok", "ok")

UntimeoutTest == untimeout_test

UntimeoutDel == untimeout_del

NextMuteUnmute ==
    \/ ApiTempmutePatch
    \/ ApiTempmuteWrite
    \/ ApiUnmuteAccepted
    \/ ApiUnmuteTest
    \/ ApiUnmuteDel
    \/ UntimeoutPatch
    \/ UntimeoutTest
    \/ UntimeoutDel
    \/ LoginAdmin

SpecMuteUnmute == Init /\ [][NextMuteUnmute]_vars

(* The command dispatcher: the dashboard's form posts and /admin commands   *)
(* of an administrator, with fields that pass validation and fields that    *)
(* do not.                                                                  *)

\* The two requests of api_prune: the listing fails, the bulk delete fails,
\* both succeed.
PruneOutcomes == {<<"http_error", "ok">>, <<"ok", "http_error">>, <<"ok", "ok">>}

ApiPrune ==
    \E channel_id \in ChannelIdInputs, count_is_int \in BOOLEAN,
       count \in {0, 1, PruneMax + 1}, calls \in PruneOutcomes :
        api_prune(channel_id, count_is_int, count, calls[1], calls[2])

ApiTempmuteForm ==
    \E member_id \in {"42", "abc", ""}, duration_is_int \in BOOLEAN, duration \in {0, 1},
       patch \in RestOutcomes :
        api_tempmute(member_id, duration_is_int, duration, "minutes", patch)

ApiChangeNickname ==
    \E nickname_given \in BOOLEAN, patch \in RestOutcomes :
        api_change_nickname(nickname_given, patch)

ApiSendMessage ==
    \E channel_id \in ChannelIdInputs, message_given \in BOOLEAN,
       webhook \in WebhookOutcomes, post \in RestOutcomes :
        api_send_message(channel_id, message_given, webhook, post)

ApiKickBanForm ==
    \E member_id \in {"42", "abc"}, action_type \in ActionTypes, rest \in RestOutcomes :
        api_kick_ban(member_id, action_type, rest)

AdminTimeout ==
    \E member_id \in {"42", "abc"}, duration_minutes \in {0, 1}, patch \in RestOutcomes :
        timeout(Administrator, member_id, duration_minutes, "ok", patch)

AdminKick ==
    \E member_id \in {"42", "abc"}, fetch \in FetchOutcomes, outcome \in BanOutcomes :
        kick(Administrator, member_id, fetch, outcome)

AdminPrune ==
    \E count \in {0, 1, PruneMax + 1}, purge \in BanOutcomes :
        prune(Administrator, count, purge)

AdminSetLogChannel == set_log_channel(Administrator, "555")

NextCommands ==
    \/ LoginAdmin
    \/ ApiPrune
    \/ ApiTempmuteForm
    \/ ApiKickBanForm
    \/ ApiChangeNickname
    \/ ApiSendMessage
    \/ ApiUpdateConfig
    \/ AdminTimeout
    \/ AdminKick
    \/ AdminPrune
    \/ AdminSetLogChannel

SpecCommands == Init /\ [][NextCommands]_vars

(* The /admin chat commands, invoked by members with and without the        *)
(* administrator permission and the moderator role.                         *)
ChatTimeout ==
    \E invoker \in Invokers, patch \in RestOutcomes :
        timeout(invoker, "42", 1, "ok", patch)

ChatUntimeout ==
    \E invoker \in Invokers, patch \in RestOutcomes :
        untimeout(invoker, "42", "ok", patch)

ChatKick ==
    \E invoker \in Invokers, outcome \in BanOutcomes :
        kick(invoker, "42", "ok", outcome)

ChatBan ==
    \E invoker \in Invokers, outcome \in BanOutcomes : ban(invoker, "42", outcome)

ChatUnban ==
    \E invoker \in Invokers, outcome \in BanOutcomes : unban(invoker, "42", outcome)

ChatPrune ==
    \E invoker \in Invokers, purge \in BanOutcomes : prune(invoker, 1, purge)

SetLogChannel ==
    \E invoker \in Invokers : set_log_channel(invoker, "555")

SetWordFilter ==
    \E invoker \in Invokers, words \in RawWordLists : set_word_filter(invoker, words)

NextChat ==
    \/ ChatTimeout
    \/ ChatUntimeout
    \/ ChatKick
    \/ ChatBan
    \/ ChatUnban
    \/ ChatPrune
    \/ SetLogChannel
    \/ SetWordFilter

SpecChat == Init /\ [][NextChat]_vars

(* The word list: it is replaced from the chat and from the dashboard      *)
(* while the event filter walks it.  The event loop runs the chat command  *)
(* only between two messages; the dashboard's thread runs at any time.     *)
WordBodies ==
    {hello, <<"a"," ">> \o <<"B","a","d","W","O","R","D">> \o <<"!">>,
     <<"A","n","o","t","h","e","r">> \o badword}

OnMessageRead ==
    \E is_bot \in BOOLEAN, content \in WordBodies :
        on_message_read(42, is_bot, TRUE, content, "ok")

OnMessageLoop ==
    \E delete_filter \in DeleteOutcomes, log_send \in LogInputs :
        on_message_loop(delete_filter, log_send)

SetWordFilterFields ==
    /\ pending = NoPending
    /\ \E words \in RawWordFields : set_word_filter(Administrator, words)

ApiUpdateConfigFields ==
    \E new_log_id_str \in {"555", ""}, word_filter_raw \in RawWordFields :
        api_update_config(new_log_id_str, word_filter_raw)

NextWords ==
    \/ OnMessageRead
    \/ OnMessageLoop
    \/ SetWordFilterFields
    \/ ApiUpdateConfigFields
    \/ LoginAdmin

SpecWords == Init /\ [][NextWords]_vars

(* Reaction roles: bindings are created by command, members react and     *)
(* take their reactions back, and roles change on the platform meanwhile.  *)
AddReactionRole ==
    \E emoji \in Emojis, role \in Roles, react \in ReactionSetupOutcomes :
        add_reaction_role(Administrator, FullLink, emoji, role, TRUE, "ok", react)

\* The same command with every kind of link, from either kind of invoker.
AddReactionRoleLink ==
    \E invoker \in {Administrator, Outsider}, message_link \in Links,
       channel_found \in BOOLEAN, fetch \in ReactionSetupOutcomes :
        add_reaction_role(invoker, message_link, "star", 90, channel_found, fetch, "ok")

OnRawReactionAdd ==
    \E in_guild \in BOOLEAN, is_bot \in BOOLEAN, message_id \in MessageIds,
       emoji \in Emojis, role_found \in BOOLEAN, outcome \in RoleOutcomes :
        on_raw_reaction_add(in_guild, 42, is_bot, message_id, emoji, role_found, outcome)

OnRawReactionRemove ==
    \E in_guild \in BOOLEAN, is_bot \in BOOLEAN, message_id \in MessageIds,
       emoji \in Emojis, role_found \in BOOLEAN, member_found \in BOOLEAN,
       outcome \in RoleOutcomes :
        on_raw_reaction_remove(in_guild, 42, is_bot, message_id, emoji, role_found,
                               member_found, outcome)

GuildMemberUpdate ==
    \E roles \in SUBSET Roles : guild_member_update(42, roles)

NextReact ==
    \/ AddReactionRole
    \/ AddReactionRoleLink
    \/ OnRawReactionAdd
    \/ OnRawReactionRemove
    \/ GuildMemberUpdate

SpecReact == Init /\ [][NextReact]_vars

(* Bans.  Time passes whatever else happens; no handler leaves a task       *)
(* behind for the event loop to run, so the clock is all that is fair.      *)
NextBan ==
    \/ ApiKickBan
    \/ Ban
    \/ Unban
    \/ LoginAdmin
    \/ Logout
    \/ Tick

FairSpec == Init /\ [][NextBan]_vars /\ WF_vars(Tick)

----------------------------------------------------------------------------
(* Properties *)

\* The instants from now to the end of the clock's range.
InstantsFromNow == {t \in now..(Epoch + MaxTicks * TickSeconds) : t >= now}

UnmuteOps == {"untimeout", "api_unmute"}
MuteOps == {"timeout", "api_tempmute"}

\* The registry's entries for user u.
EntriesOf(d, u) == {e \in d : e[1] = u}

\* The event filter handled a message (it did not ignore it).
Filtered == last.op = "on_message" /\ last.result # "ignored"

(* C1: at every instant t from now on, the event filter treats user u as   *)
(* muted iff the last successful mute call for u set an expiry greater     *)
(* than t and no unmute call for u came after that mute; and the message   *)
(* just handled was treated so.                                            *)
C1_MutedIffLastMuteStands ==
    /\ \A u \in Users : \A t \in InstantsFromNow :
          MuteCheck(u, t) <=> \E e \in muteHistory : e[1] = u /\ e[2] > t
    /\ Filtered =>
          (last.hit <=> \E e \in muteHistory : e[1] = last.user /\ e[2] > now)

(* C2: the mute check on a message at instant now is positive iff the      *)
(* author has an entry and now < expires_at; a check that finds an entry   *)
(* with now >= expires_at is negative and removes the entry; and an entry  *)
(* leaves the registry only through such a check or an unmute of its user. *)
C2_CheckStrictAndLazyCleanup ==
    [][ /\ (last'.op = "on_message" /\ last'.result # "ignored") =>
              LET entry == EntriesOf(muted_users, last'.user)
              IN  /\ last'.hit <=> \E e \in entry : now < e[2]
                  /\ (\E e \in entry : now >= e[2]) =>
                        ~last'.hit /\ EntriesOf(muted_users', last'.user) = {}
        /\ \A u \in Users :
              (EntriesOf(muted_users, u) # {} /\ EntriesOf(muted_users', u) = {}) =>
                  /\ last'.user = u
                  /\ \/ last'.op \in UnmuteOps
                     \/ /\ last'.op = "on_message"
                        /\ \E e \in EntriesOf(muted_users, u) : now >= e[2]
      ]_vars

\* User 42, muted for one minute at the start, posts a minute later: the
\* check is negative and the entry is gone.
C2_Witness ==
    /\ Filtered /\ last.user = 42 /\ ~last.hit /\ last.cleaned
    /\ now = Epoch + 2 * TickSeconds
    /\ <<42, Epoch + 60>> \in muteHistory
    /\ EntriesOf(muted_users, 42) = {}

\* Some word of the filter list occurs in the body, in whatever letter case.
MentionsBlacklisted(body) ==
    \E i \in 1..Len(word_filter_list) :
        LET word == word_filter_list[i]
        IN  /\ Len(word) > 0
            /\ \E at \in 0..(Len(body) - Len(word)) :
                  \A k \in 1..Len(word) : LowerChar(body[at + k]) = LowerChar(word[k])

(* C3, as amended: a message of a currently muted author gets a delete     *)
(* call; when that call succeeds, handling stops (no word filter, no       *)
(* second delete call, no filter log entry); when it fails, the word       *)
(* filter is still applied to the message in the same cycle.               *)
C3_MutedMessageDeletedThenStops ==
    (Filtered /\ last.hit) =>
        /\ last.deletes >= 1
        /\ last.mute_delete = "ok" =>
              /\ last.deletes = 1 /\ last.deleted
              /\ last.trigger = <<>> /\ last.log = "none"
        /\ last.mute_delete # "ok" =>
              /\ (last.trigger # <<>>) <=> MentionsBlacklisted(last.body)
              /\ last.deletes = IF MentionsBlacklisted(last.body) THEN 2 ELSE 1

(* C3, as stated: ... and handling stops whatever the outcome of the       *)
(* delete call: no second delete attempt, no filter log entry.             *)
C3_AsStated_StopsWhateverTheOutcome ==
    (Filtered /\ last.hit) =>
        /\ last.deletes = 1
        /\ last.trigger = <<>> /\ last.log = "none"

\* A muted author's message with a blacklisted word, deleted by the mute check.
C3_Witness ==
    /\ Filtered /\ last.hit /\ last.mute_delete = "ok"
    /\ MentionsBlacklisted(last.body)
    /\ last.deletes = 1 /\ last.result = "mute_deleted"

(* C4: a successful mute of u stores now + durationSeconds under key u in  *)
(* place of any prior entry (also a later one); the registry holds at most *)
(* one entry per user, and a user without an entry is not muted.           *)
C4_MuteStoresExpiryOverwriting ==
    /\ (last.op \in MuteOps /\ last.result = "success") =>
          EntriesOf(muted_users, last.user) = {<<last.user, now + last.seconds>>}
    /\ \A u \in Users : Cardinality(EntriesOf(muted_users, u)) <= 1
    /\ \A u \in Users : EntriesOf(muted_users, u) = {} => ~MuteCheck(u, now)
    /\ (Filtered /\ EntriesOf(muted_users, last.user) = {} /\ ~last.cleaned) => ~last.hit

\* A mute that replaces an entry with a later expiry.
C4_Witness ==
    /\ last.op \in MuteOps /\ last.result = "success"
    /\ \E v \in last.prior : v > now + last.seconds
    /\ EntriesOf(muted_users, last.user) = {<<last.user, now + last.seconds>>}

(* C5, as amended: an unmute (untimeout or api_unmute) of a user who has   *)
(* no registry entry leaves the whole registry unchanged; it reports       *)
(* success when its timeout-removal request succeeds and an error when a   *)
(* request fails: there is no separate "not muted" result.                 *)
C5_UnmuteOfUnmutedKeepsRegistry ==
    [][ (last'.op \in UnmuteOps /\ last'.user \in Users
            /\ EntriesOf(muted_users, last'.user) = {}) =>
              /\ muted_users' = muted_users
              /\ last'.result \in {"success", "error"}
              /\ last'.result = "success" <=> last'.rest = "ok"
      ]_vars

(* C5, as stated: ... and yields an informational result that reports the  *)
(* user was not muted, neither a success nor an error.                     *)
C5_AsStated_InformationalResult ==
    [][ (last'.op \in UnmuteOps /\ last'.user \in Users
            /\ EntriesOf(muted_users, last'.user) = {}) =>
              /\ muted_users' = muted_users
              /\ last'.result \notin {"success", "error"}
      ]_vars

\* User 7 is unmuted without an entry while user 42 has one.
C5_Witness ==
    /\ last.op \in UnmuteOps /\ last.user = 7 /\ last.prior = {}
    /\ last.result = "success"
    /\ EntriesOf(muted_users, 42) # {}

(* C6, as amended: for a message the filter handles whose author is not    *)
(* currently muted: a body containing a blacklisted word, in any letter    *)
(* case, gets exactly one delete call; a body containing none gets no      *)
(* delete call.                                                            *)
C6_WordFilterDeletesOnce ==
    (Filtered /\ ~last.hit) =>
        /\ MentionsBlacklisted(last.body) => last.deletes = 1
        /\ ~MentionsBlacklisted(last.body) => last.deletes = 0 /\ ~last.deleted

(* C6, as stated: the same for every message the filter handles.           *)
C6_AsStated_EveryAuthor ==
    Filtered =>
        /\ MentionsBlacklisted(last.body) => last.deletes = 1
        /\ ~MentionsBlacklisted(last.body) => last.deletes = 0 /\ ~last.deleted

\* A blacklisted word in mixed case, deleted by the word filter.
C6_Witness ==
    /\ Filtered /\ ~last.hit
    /\ \E i \in 1..Len(last.body) : last.body[i] = "W"
    /\ MentionsBlacklisted(last.body)
    /\ last.deletes = 1 /\ last.deleted /\ last.trigger = badword

KnownUnits == {"minutes", "hours", "days"}

(* C7: a mute request with a unit other than minutes/hours/days converts   *)
(* to 0 seconds and is refused as an invalid duration: no timeout request  *)
(* is made, no entry is written, an error is reported.                     *)
C7_UnknownUnitRefused ==
    (last.op = "api_tempmute" /\ last.user \in Users /\ last.unit \notin KnownUnits) =>
        /\ last.seconds = 0
        /\ last.ext = 0
        /\ last.result = "error"
        /\ EntriesOf(muted_users, last.user) = {<<last.user, e>> : e \in last.prior}

(* C8: n minutes are n*60 seconds, n hours n*3600, n days n*86400, and n   *)
(* of any other unit 0.                                                    *)
C8_DurationConversion ==
    /\ (last.op = "api_tempmute" /\ last.user \in Users) =>
          /\ last.unit = "minutes" => last.seconds = 60 * last.duration
          /\ last.unit = "hours" => last.seconds = 3600 * last.duration
          /\ last.unit = "days" => last.seconds = 86400 * last.duration
          /\ last.unit \notin KnownUnits => last.seconds = 0
          /\ (last.duration = 5 /\ last.unit = "minutes") => last.seconds = 300
          /\ (last.duration = 2 /\ last.unit = "hours") => last.seconds = 7200
          /\ (last.duration = 1 /\ last.unit = "days") => last.seconds = 86400
    /\ (last.op = "timeout" /\ last.user \in Users /\ last.ext = 2) =>
          last.seconds = 60 * last.duration

\* Two hours on the dashboard's mute form.
C8_Witness ==
    /\ last.op = "api_tempmute" /\ last.result = "success"
    /\ last.duration = 2 /\ last.unit = "hours" /\ last.seconds = 7200
    /\ <<42, now + 7200>> \in muted_users

TempBanSucceeded(u) ==
    /\ last.op = "api_kick_ban" /\ last.action = "tempban"
    /\ last.user = u /\ last.result = "success"

UnbanSucceeded(u) ==
    /\ last.user = u /\ last.result = "success"
    /\ \/ last.op = "api_kick_ban" /\ last.action = "unban"
       \/ last.op = "unban"

(* C9: every successful temporary ban of a user is eventually followed by  *)
(* an unban of that user.                                                  *)
C9_TempBanEventuallyUnbanned ==
    \A u \in Users : [](TempBanSucceeded(u) => <>UnbanSucceeded(u))

ProtectedOps == {"home", "dashboard", "api_tempmute", "api_unmute", "api_kick_ban",
                 "api_update_config", "api_prune", "api_change_nickname",
                 "api_send_message"}

(* The answer to the latest request to a protected route: the route ran   *)
(* iff the session's authenticated flag is set and its identity is the     *)
(* fallback sentinel or the administrator's id; any other request was      *)
(* redirected to login and nothing of the route's body happened.           *)
C10_State ==
    last.op \in ProtectedOps =>
        /\ last.result # "login_redirect" <=>
              /\ session.authenticated
              /\ session.discord_user_id \in {FALLBACK_ADMIN, DASHBOARD_ADMIN_USER_ID}
        /\ last.result = "login_redirect" => last = Event(last.op, 0, "login_redirect")

(* C10: the same at every request, and a request that is redirected to    *)
(* login changes nothing: neither the registry, the configuration nor the  *)
(* session.                                                                *)
C10_ProtectedRoutesNeedAdminSession ==
    /\ []C10_State
    /\ [][ (last'.op \in ProtectedOps /\ last'.result = "login_redirect") =>
              UNCHANGED <<now, muted_users, word_filter_list, log_channel_id, session,
                          pending, muteHistory, reaction_roles, member_roles, granted, inflight>>
         ]_vars

\* The administrator, logged in through the identity provider, unmutes a user.
C10_Witness ==
    /\ last.op = "api_unmute" /\ last.result = "success"
    /\ session.authenticated /\ session.discord_user_id = DASHBOARD_ADMIN_USER_ID

\* The dashboard's session routes.
SessionOps == {"login", "oauth_callback", "logout"}

(* C11: over any sequence of login, oauth_callback, logout and dashboard   *)
(* requests, a dashboard route changes the mute registry or the            *)
(* configuration, or issues an external call, only while the session was   *)
(* put in the authenticated state by the configured passphrase or by an    *)
(* identity exchange that returned the administrator's id, with no logout  *)
(* since; a route that got past the login check ran in such a session.     *)
C11_DashboardActsOnlyWhileGranted ==
    [][ (last'.op \in ProtectedOps) =>
           /\ (\/ muted_users' # muted_users
               \/ word_filter_list' # word_filter_list
               \/ log_channel_id' # log_channel_id
               \/ reaction_roles' # reaction_roles
               \/ last'.ext > 0
               \/ last'.result # "login_redirect") => granted \in {"passphrase", "identity"}
           /\ granted' = granted
      ]_vars

\* The configuration is rewritten from a session that the identity provider
\* authenticated.
C11_Witness ==
    /\ last.op = "api_update_config" /\ last.result = "success"
    /\ granted = "identity"
    /\ log_channel_id = "555" /\ word_filter_list = <<Lower(Spam)>>

(* C12, as amended: an identity exchange is accepted only when the fetched *)
(* identity is the administrator's id.  When the code is missing or a      *)
(* transport call fails, the request ends in a redirect to login with an   *)
(* error message; when the identity differs, it ends in a redirect to      *)
(* logout carrying the message.  In both cases the session is left as it   *)
(* was before the request, and a logout leaves it unauthenticated.         *)
C12_ExchangeAcceptsOnlyAdministrator ==
    /\ (last.op = "oauth_callback" /\ last.result = "success") =>
          /\ granted = "identity"
          /\ session = [authenticated |-> TRUE,
                        discord_user_id |-> DASHBOARD_ADMIN_USER_ID]
    /\ (last.op = "oauth_callback" /\ last.result # "success") =>
          /\ last.result \in {"login_error", "logout_redirect"}
          /\ last.result = "logout_redirect" => last.ext = 2
          /\ session = last.prior_session
    /\ last.op = "logout" => session = NoSession /\ last.result = "login_error"

(* C12, as stated: ... when the code is missing, a transport call fails or *)
(* the identity differs, the request ends in a redirect to login with an   *)
(* error message and the session is unauthenticated afterwards.            *)
C12_AsStated_FailureLeavesUnauthenticated ==
    (last.op = "oauth_callback" /\ last.result # "success") =>
        /\ last.result = "login_error"
        /\ ~session.authenticated

\* An exchange fails on a session that a passphrase login had authenticated:
\* the session is still authenticated.
C12_Witness ==
    /\ last.op = "oauth_callback" /\ last.result = "login_error"
    /\ last.prior_session.authenticated /\ session.authenticated
    /\ session.discord_user_id = FALLBACK_ADMIN

(* C13: when the external timeout call of a mute command (timeout or       *)
(* api_tempmute) fails, the handler reports an error, has made that call   *)
(* once, and leaves the mute registry as it was; an entry appears in the   *)
(* registry, or changes, only in a mute command that reports success.      *)
C13_FailedMuteLeavesRegistry ==
    [][ /\ (last'.op \in MuteOps /\ last'.rest = "http_error") =>
              /\ last'.result = "error"
              /\ last'.effects = 1
              /\ muted_users' = muted_users
        /\ \A u \in Users :
              (EntriesOf(muted_users', u) # {}
                  /\ EntriesOf(muted_users', u) # EntriesOf(muted_users, u)) =>
                  /\ last'.op \in MuteOps /\ last'.user = u
                  /\ last'.result = "success" /\ last'.rest = "ok"
      ]_vars

\* The timeout request for a user who is muted already is refused: the old
\* entry stands.
C13_Witness ==
    /\ last.op \in MuteOps /\ last.rest = "http_error" /\ last.result = "error"
    /\ last.user = 42 /\ last.prior # {}
    /\ EntriesOf(muted_users, 42) = {<<42, e>> : e \in last.prior}

\* Handlers that take a member, user or channel id field.
IdOps == {"timeout", "untimeout", "kick", "ban", "unban", "api_tempmute", "api_unmute",
          "api_kick_ban", "api_prune", "api_send_message"}

\* The handler got as far as validating the fields of the command.
Validated(ev) == ev.result \notin {"login_redirect", "denied", "server_error", "none"}

\* A parameter of the command fails validation: a non-numeric id, a prune
\* count outside 1..100, a zero duration.
ValidationFails(ev) ==
    /\ Validated(ev)
    /\ \/ ev.op \in IdOps /\ ~IsDigit(ev.id)
       \/ ev.op \in {"prune", "api_prune"} /\ CountOutOfRange(ev.duration)
       \/ ev.op \in MuteOps /\ ev.unit # "" /\ ev.duration = 0

(* C14: a command whose parameters fail validation is aborted: an error is *)
(* reported, no external call is made, and the mute registry and the       *)
(* configuration are unchanged.                                            *)
C14_InvalidParametersAbort ==
    [][ ValidationFails(last') =>
           /\ last'.result \in {"error", "invalid"}
           /\ last'.ext = 0
           /\ UNCHANGED <<muted_users, word_filter_list, log_channel_id, reaction_roles>>
      ]_vars

\* The dashboard's form posts and the /admin chat commands.
ApiOps == {"api_tempmute", "api_unmute", "api_kick_ban", "api_update_config",
           "api_prune", "api_change_nickname", "api_send_message"}
ChatOps == {"timeout", "untimeout", "kick", "ban", "unban", "prune",
            "set_log_channel", "set_word_filter"}
ConfigOps == {"api_update_config", "set_log_channel", "set_word_filter"}

(* C15: every authorized form post to a dashboard /api route, whatever its *)
(* fields, ends in a redirect to the dashboard with a non-empty status or  *)
(* an error parameter; none ends with an uncaught failure.                 *)
C15_ApiPostsAnswerStatusOrError ==
    (last.op \in ApiOps /\ last.result # "login_redirect") =>
        last.result \in {"success", "error"}

C20_ChatCommandsNeedModeratorRole ==
    [][ (last'.op \in ChatOps /\ ~last'.invoker.moderator) =>
           /\ last'.result = "denied"
           /\ last'.ext = 0
           /\ UNCHANGED <<muted_users, word_filter_list, log_channel_id, reaction_roles>>
      ]_vars

\* The role a reaction event found bound to its pair.
BoundRole(ev) == IntOf(CHOOSE r \in ev.reaction.bound : TRUE)

(* C16: /addreactionrole stores a binding only after the fetch of the       *)
(* message and the add-reaction call have both succeeded; with a malformed  *)
(* link, an unknown channel or message, or a failed reaction call it        *)
(* reports failure and leaves the table unchanged.                          *)
C16_BindingStoredAfterReaction ==
    [][ last'.op = "add_reaction_role" =>
           /\ last'.result = "success" => last'.calls = <<"ok", "ok">>
           /\ last'.result # "success" => UNCHANGED reaction_roles
           /\ ( \/ Len(Split(last'.link)) < 3
                \/ ~last'.channel
                \/ \E i \in DOMAIN last'.calls : last'.calls[i] # "ok" )
              => last'.result \in {"invalid", "error", "denied"}
      ]_vars

\* The reaction call was refused after the message had been fetched, and the
\* bindings made earlier are still in the table.
C16_Witness ==
    /\ last.op = "add_reaction_role" /\ last.result = "error"
    /\ last.calls = <<"ok", "forbidden">>
    /\ reaction_roles # {}

(* C17, as amended: when a reaction-add has granted the bound role and the  *)
(* same member at once takes the reaction back, a revoke the platform       *)
(* accepts leaves the member with the role set they had before the grant    *)
(* less the bound role: their set before the grant exactly when they did    *)
(* not hold the bound role then.  When the revoke is not made or is         *)
(* refused, the member keeps the granted role.  Other members are untouched.*)
C17_GrantThenRevoke ==
    (last.op = "on_raw_reaction_remove" /\ last.before_grant # {}) =>
        \A before \in last.before_grant :
            LET u == last.user
                role == BoundRole(last)
            IN  /\ last.result = "ok" =>
                      member_roles = [before EXCEPT ![u] = @ \ {role}]
                /\ last.result # "ok" =>
                      member_roles = [before EXCEPT ![u] = @ \cup {role}]
                /\ (last.result = "ok" /\ role \notin before[u]) => member_roles = before

(* C17, as stated: a grant followed at once by an accepted revoke of the    *)
(* same pair by the same member returns the role set to its state before    *)
(* the grant, whatever that state was.                                      *)
C17_AsStated_RevokeRestoresRoleSet ==
    (last.op = "on_raw_reaction_remove" /\ last.before_grant # {} /\ last.result = "ok") =>
        \A before \in last.before_grant : member_roles = before

\* A member without the bound role was granted it and has given it back.
C17_Witness ==
    /\ last.op = "on_raw_reaction_remove" /\ last.result = "ok"
    /\ \E before \in last.before_grant :
          /\ BoundRole(last) \notin before[last.user]
          /\ BoundRole(last) \in last.roles_before[last.user]
          /\ member_roles = before

(* C18, as amended: on a reaction-add in the managed guild by a reactor     *)
(* that is not a bot, the grant call is made iff the pair is bound and the  *)
(* bound role still resolves in the guild; on a reaction-remove in the      *)
(* managed guild the revoke call is made iff the pair is bound, the role    *)
(* resolves and the member is in the member cache.  The member's role set   *)
(* gains (loses) the bound role when the call is accepted and is unchanged  *)
(* otherwise; no other member's roles change.                               *)
C18_ReactionEventsGrantAndRevoke ==
    /\ last.op = "on_raw_reaction_add" =>
          /\ last.ext = 1 <=> /\ last.reaction.guild /\ ~last.reaction.bot
                              /\ last.reaction.bound # {} /\ last.reaction.role_found
          /\ member_roles =
                IF last.ext = 1 /\ last.result = "ok"
                THEN [last.roles_before EXCEPT ![last.user] = @ \cup {BoundRole(last)}]
                ELSE last.roles_before
    /\ last.op = "on_raw_reaction_remove" =>
          /\ last.ext = 1 <=> /\ last.reaction.guild /\ last.reaction.bound # {}
                              /\ last.reaction.role_found /\ last.reaction.member_found
          /\ member_roles =
                IF last.ext = 1 /\ last.result = "ok"
                THEN [last.roles_before EXCEPT ![last.user] = @ \ {BoundRole(last)}]
                ELSE last.roles_before

(* C18, as stated: the grant (revoke) is attempted iff the pair is bound,   *)
(* nothing being granted to an automated reactor.                           *)
C18_AsStated_GrantIffBound ==
    /\ last.op = "on_raw_reaction_add" =>
          (last.ext = 1 <=> /\ last.reaction.guild /\ ~last.reaction.bot
                            /\ last.reaction.bound # {})
    /\ last.op = "on_raw_reaction_remove" =>
          (last.ext = 1 <=> last.reaction.guild /\ last.reaction.bound # {})

\* A member reacted on a bound pair and now holds the bound role.
C18_Witness ==
    /\ last.op = "on_raw_reaction_add" /\ last.result = "ok"
    /\ BoundRole(last) \notin last.roles_before[last.user]
    /\ BoundRole(last) \in member_roles[last.user]

(* C21: a message whose author is a bot, or that does not belong to the    *)
(* managed guild, is ignored: no delete call is made, no log entry is      *)
(* emitted and the mute registry is unchanged, an expired entry of the     *)
(* author included.                                                        *)
C21_ForeignAndBotMessagesIgnored ==
    [][ (last'.op = "on_message" /\ (last'.sender.bot \/ ~last'.sender.guild)) =>
           /\ last'.deletes = 0 /\ ~last'.deleted
           /\ last'.trigger = <<>> /\ last'.log = "none"
           /\ ~last'.hit /\ ~last'.cleaned
           /\ UNCHANGED muted_users
      ]_vars

\* A message with a blacklisted word from outside the guild, by an author
\* whose entry has expired: the entry is still there.
C21_Witness ==
    /\ last.op = "on_message" /\ ~last.sender.guild /\ ~last.sender.bot
    /\ MentionsBlacklisted(last.body)
    /\ \E e \in EntriesOf(muted_users, last.user) : now >= e[2]

MaxMuteSeconds == 2419200

(* C27: untimeout and api_unmute remove the user's entry only after the    *)
(* platform has accepted the timeout removal; when it refuses, the         *)
(* registry is unchanged, an error is reported, and the mute check stays   *)
(* positive for that user at every instant before the stored expiry.       *)
C27_UnmuteClearsAfterSuccess ==
    [][ last'.op \in UnmuteOps =>
           /\ muted_users' # muted_users =>
                 /\ last'.rest = "ok" /\ last'.result = "success"
                 /\ muted_users' = DictDel(muted_users, last'.user)
           /\ last'.rest = "http_error" =>
                 /\ last'.result = "error"
                 /\ UNCHANGED muted_users
                 /\ \A e \in EntriesOf(muted_users, last'.user) :
                       \A t \in InstantsFromNow :
                           t < e[2] =>
                               LET unmute_time == DictGet(muted_users', last'.user)
                               IN  Truthy(unmute_time) /\ StillMuted(unmute_time, t)
      ]_vars

\* The platform refused to lift the timeout of a muted user: the entry stands.
C27_Witness ==
    /\ last.op \in UnmuteOps /\ last.rest = "http_error" /\ last.result = "error"
    /\ \E e \in EntriesOf(muted_users, last.user) : now < e[2] /\ last.prior = {e[2]}
    /\ MuteCheck(last.user, now)

(* C30: every entry written by timeout or api_tempmute expires at most 28  *)
(* days (2,419,200 seconds) after the instant it is written; api_tempmute  *)
(* rejects a computed duration above 28 days with an error, without a call *)
(* and without a registry change, and timeout accepts 1 to 40320 minutes   *)
(* only.                                                                   *)
C30_ExpiryWithinCap ==
    [][ last'.op \in MuteOps =>
           /\ \A e \in muted_users' \ muted_users : e[2] <= now' + MaxMuteSeconds
           /\ \A e \in muted_users' : e[2] <= now' + MaxMuteSeconds
           /\ (last'.op = "api_tempmute" /\ last'.seconds > MaxMuteSeconds) =>
                 /\ last'.result = "error" /\ last'.ext = 0
                 /\ UNCHANGED muted_users
           /\ (last'.op = "timeout" /\ last'.invoker.administrator
                 /\ (last'.duration < 1 \/ last'.duration > 40320)) =>
                 /\ last'.result = "invalid" /\ last'.ext = 0
                 /\ UNCHANGED muted_users
           /\ (last'.op = "timeout" /\ last'.result = "success") =>
                 last'.duration \in 1..40320
      ]_vars

\* A mute of exactly 28 days from the dashboard is stored.
C30_Witness ==
    /\ last.op = "api_tempmute" /\ last.result = "success"
    /\ last.duration = 28 /\ last.unit = "days" /\ last.seconds = MaxMuteSeconds
    /\ <<42, now + MaxMuteSeconds>> \in muted_users

\* `word` is non-empty and occurs in `text` at some position.
Occurs(word, text) ==
    /\ Len(word) > 0
    /\ \E at \in 0..(Len(text) - Len(word)) : \A k \in 1..Len(word) : text[at + k] = word[k]

\* The first word of list L, in the list's order, that occurs in `text`.
FirstMatch(L, text) ==
    LET m == {i \in 1..Len(L) : Occurs(L[i], text)}
    IN  IF m = {} THEN <<>> ELSE L[CHOOSE i \in m : \A j \in m : i <= j]

\* The body of the message just handled, letter by letter in lower case.
LoweredBody == [i \in 1..Len(last.body) |-> LowerChar(last.body[i])]

\* The word filter was applied to the message just handled.
FilterRan ==
    last.op = "on_message" /\ last.result \in {"passed", "filter_deleted", "filter_delete_failed"}

(* C23, as amended: the trigger word is the first word, in blacklist       *)
(* order, of the list the filter read that is a substring of the           *)
(* lowercased body.  Whenever there is one, one delete call is made for    *)
(* the filter; a log entry naming the trigger is handed to the log channel *)
(* only when that call succeeded, and it is sent only when a log channel   *)
(* is configured.  A refused delete leaves the message and sends no entry. *)
C23_FirstMatchDeletesAndLogs ==
    FilterRan =>
        LET word == FirstMatch(last.filter_list, LoweredBody)
        IN  /\ last.trigger = word
            /\ word = <<>> => last.deletes = (IF last.hit THEN 1 ELSE 0) /\ last.log = "none"
            /\ word # <<>> =>
                  /\ last.deletes = 1 + (IF last.hit THEN 1 ELSE 0)
                  /\ last.deleted <=> last.result = "filter_deleted"
                  /\ last.deleted => last.log \in {"sent", "failed", "no_channel"}
                  /\ (last.deleted /\ log_channel_id = None) => last.log = "no_channel"
                  /\ ~last.deleted => last.log = "none"

(* C23, as stated: ... and whenever a match is found the message is        *)
(* deleted and a log entry naming the trigger word is emitted.             *)
C23_AsStated_MatchDeletesAndLogs ==
    FilterRan =>
        LET word == FirstMatch(last.filter_list, LoweredBody)
        IN  /\ last.trigger = word
            /\ word # <<>> => last.deleted /\ last.log = "sent"

\* "a BadWORD!" against the list <<"word", "bad">>: both words occur, "bad"
\* earlier in the body; the trigger is "word", and the entry is sent.
C23_Witness ==
    /\ FilterRan /\ last.deleted /\ last.log = "sent"
    /\ last.filter_list = << <<"w","o","r","d">>, <<"b","a","d">> >>
    /\ Occurs(<<"b","a","d">>, LoweredBody)
    /\ last.trigger = <<"w","o","r","d">>

\* The positions of the commas of a field, and its ends.
Cuts(raw) == {0, Len(raw) + 1} \cup {i \in 1..Len(raw) : raw[i] = ","}

\* The n-th comma-separated piece of a field.
Piece(raw, n) ==
    LET cut(k) == CHOOSE c \in Cuts(raw) : Cardinality({d \in Cuts(raw) : d < c}) = k - 1
    IN  SubSeq(raw, cut(n) + 1, cut(n + 1) - 1)

\* A piece without its leading and trailing whitespace, in lower case.
Trimmed(piece) ==
    LET inked == {i \in 1..Len(piece) : piece[i] \notin Whitespace}
        first == CHOOSE i \in inked : \A j \in inked : i <= j
        final == CHOOSE i \in inked : \A j \in inked : i >= j
    IN  IF inked = {} THEN <<>>
        ELSE [i \in 1..(final - first + 1) |-> LowerChar(piece[first + i - 1])]

\* L holds the non-blank pieces of the field, trimmed, in the field's order.
OrderKept(raw, L) ==
    LET pieces == 1..(Cardinality(Cuts(raw)) - 1)
    IN  \E f \in [1..Len(L) -> pieces] :
            /\ \A i \in 1..Len(L) : \A j \in 1..Len(L) : i < j => f[i] < f[j]
            /\ \A i \in 1..Len(L) : L[i] = Trimmed(Piece(raw, f[i]))
            /\ \A n \in pieces : (\A i \in 1..Len(L) : f[i] # n) => Trimmed(Piece(raw, n)) = <<>>

(* C28: in every reachable state every element of the word filter list is  *)
(* non-empty, has no leading or trailing whitespace and is lowercase; and   *)
(* after a set-word-filter command or a configuration post the list holds   *)
(* the submitted comma-separated words in the order they were given.        *)
C28_WordListNormalised ==
    /\ \A i \in 1..Len(word_filter_list) :
          LET w == word_filter_list[i]
          IN  /\ w # <<>>
              /\ w[1] \notin Whitespace /\ w[Len(w)] \notin Whitespace
              /\ \A k \in 1..Len(w) : LowerChar(w[k]) = w[k]
    /\ (last.op \in {"set_word_filter", "api_update_config"} /\ last.result = "success") =>
          OrderKept(last.raw, word_filter_list)

\* "word, Bad" was submitted: the list is <<"word", "bad">>.
C28_Witness ==
    /\ last.op \in {"set_word_filter", "api_update_config"} /\ last.result = "success"
    /\ last.raw = <<"w","o","r","d",","," ","B","a","d">>
    /\ word_filter_list = << <<"w","o","r","d">>, <<"b","a","d">> >>

(* C29: a message whose word filter runs while the configuration is        *)
(* updated is matched against one version of the list, the one in force    *)
(* when the filter read it: the list before the update or the list after   *)
(* it, whole, never words of both.                                         *)
C29_MessageSeesOneListVersion ==
    [][ (pending.pc = "loop" /\ pending'.pc = "none") =>
           LET text == [i \in 1..Len(pending.content) |-> LowerChar(pending.content[i])]
           IN  /\ last'.op = "on_message" /\ last'.body = pending.content
               /\ last'.trigger = FirstMatch(pending.list, text)
               /\ \E L \in {pending.list, word_filter_list} :
                     last'.trigger = FirstMatch(L, text)
      ]_vars

\* The list was replaced between the filter's read and the end of its loop:
\* the message was matched against the list it had read.
C29_Witness ==
    /\ FilterRan /\ last.filter_list # word_filter_list
    /\ last.trigger # <<>>
    /\ last.trigger = FirstMatch(last.filter_list, LoweredBody)
    /\ last.trigger # FirstMatch(word_filter_list, LoweredBody)

(* C24: under every interleaving of the message handler with a dashboard   *)
(* mute of the same user, the `del` of the lazy cleanup removes no entry   *)
(* whose expiry lies in the future.                                        *)
C24_CleanupKeepsLiveEntries ==
    [][ (pending.pc = "del" /\ pending'.pc = "none") =>
           \A e \in muted_users \ muted_users' : e[2] <= now
      ]_vars

\* C25: whatever the interleaving of removals of one user's entry from
\* different contexts, no handler ends with a raised missing-key failure and
\* an unmute whose external call succeeded reports success.
C25_RemovalsNeverMissKey ==
    /\ last.result # "key_error"
    /\ (last.op \in UnmuteOps /\ last.rest = "ok") => last.result = "success"

\* No handler is between two of its statements.
Quiescent == pending = NoPending /\ \A t \in Threads : inflight[t] = NoRequest

\* C26: with every external call accepted, once the handlers have finished
\* the registry holds an entry for a user exactly when the call applied last
\* on the platform for that user was a mute.
C26_RegistryAgreesWithPlatform ==
    Quiescent =>
        \A u \in Users : DictHas(muted_users, u) <=> (\E e \in muteHistory : e[1] = u)

====
